---- MODULE Spec2Model ----
(***************************************************************************)
(* MIC-Reader: a model of the plate-reading pipeline                       *)
(*   well_extractor.extract_wells  ->  color_classifier.classify_wells     *)
(*   ->  mic_calculator.calculate_mic                                      *)
(*                                                                         *)
(* Numbers.  The Python code computes with floats.  The model computes     *)
(* with integers:                                                          *)
(*   - scores are fixed-point, SCALE units per 1.0 (1.0 = 1000000), and    *)
(*     every quotient is a floor division;                                 *)
(*   - saturation anchors are kept doubled (the median of an even number   *)
(*     of integers is a half-integer);                                     *)
(*   - pixel coordinates and lengths are in units of 1/PX pixel.           *)
(***************************************************************************)
EXTENDS Integers, Sequences, FiniteSets, TLC

VARIABLES
    wells,        \* classify_wells: the input mapping (row, col) -> colour sample
    todo,         \* classify_wells: keys wells.items() has still to yield, in order
    calib,        \* classify_wells: the two saturation anchors (doubled)
    classified,   \* classify_wells: the mapping being built / returned
    pc,           \* position of the running function
    scan,         \* resolve_uncertain_wells: index of the next (row, col) of the scan
    nbr,          \* resolve_uncertain_wells: the neighbour classes read last
    results,      \* calculate_mic: the list of row results it returns
    image,        \* extract_wells: the plate image (width, height in pixels, painted scene)
    circles,      \* extract_wells: the candidates detect_circles returned, <<x, y, radius>>
    med_radius,   \* extract_wells: the median radius detect_circles returned
    fit,          \* fit_grid_robust: the steps and origin it currently holds
    grid,         \* extract_wells: the 8x12 grid of slots
    grid_params,  \* extract_wells: (origin_x, origin_y, step_x, step_y)
    stacked,      \* detect_circles: the stacked detections handed to _deduplicate
    deduped,      \* detect_circles: what _deduplicate returned
    set_order,    \* fit_grid_robust: the best origin this runtime's set iteration yields first
    first_run     \* the grid parameters of an earlier fit of the same candidates

cvars == <<wells, todo, calib, classified, scan, nbr, results>>
evars == <<image, circles, med_radius, fit, grid, grid_params>>
dvars == <<stacked, deduped>>
rvars == <<set_order, first_run>>
vars == <<wells, todo, calib, classified, pc, scan, nbr, results,
          image, circles, med_radius, fit, grid, grid_params,
          stacked, deduped, set_order, first_run>>

-----------------------------------------------------------------------------
(* config.py *)

ROWS == 8
COLS == 12

\* CONTROL_WELL = ('H', 0); ROW_LABELS.index('H') = 7
CONTROL_WELL == <<7, 0>>

\* ANTIFUNGALS[ROW_LABELS[row_idx]]
ANTIFUNGALS(row_idx) ==
    <<"AND", "MIF", "CAS", "POS", "VOR", "ITR", "FLU", "AMB">>[row_idx + 1]

\* Python's None in a place that otherwise holds a number (a score, a column, a concentration)
NoNumber == -1

\* CONCENTRATIONS[ROW_LABELS[row_idx]] in micrograms per litre (mg/L times 1000);
\* the control well's entry of row H is None
ConcAF == <<4, 8, 16, 32, 64, 125, 250, 500, 1000, 2000, 4000, 8000>>
ConcG == <<64, 125, 250, 500, 1000, 2000, 4000, 8000, 16000, 32000, 64000, 128000>>
ConcH == <<NoNumber, 8, 16, 32, 64, 125, 250, 500, 1000, 2000, 4000, 8000>>
CONCENTRATIONS(row_idx) ==
    IF row_idx = 7 THEN ConcH ELSE IF row_idx = 6 THEN ConcG ELSE ConcAF

\* INHIBITION_THRESHOLDS with the 50% rule for every agent
INHIBITION_THRESHOLDS_AllHalf(antifungal) == 50

\* INHIBITION_THRESHOLDS[antifungal], in percent
INHIBITION_THRESHOLDS(antifungal) == IF antifungal = "AMB" THEN 90 ELSE 50

\* RELATIVE_WEIGHT = 0.65, ABSOLUTE_WEIGHT = 0.35, in percent
RELATIVE_WEIGHT == 65
ABSOLUTE_WEIGHT == 35

-----------------------------------------------------------------------------
(* arithmetic helpers *)

SCALE == 1000000

Max(a, b) == IF a >= b THEN a ELSE b
Min(a, b) == IF a <= b THEN a ELSE b
Abs(a) == IF a < 0 THEN -a ELSE a

\* np.clip(x, lo, hi)
ClipAbove(x, lo, hi) == IF x > hi THEN hi ELSE x
Clip(x, lo, hi) == IF x < lo THEN lo ELSE IF x > hi THEN hi ELSE x

\* floor(a / b) for b # 0
Div(a, b) == IF b > 0 THEN a \div b ELSE (-a) \div (-b)

\* the k-th smallest (k = 1..n) of the values f[x], x in S, counted with multiplicity
KthSmallest(f, S, k) ==
    CHOOSE v \in {f[x] : x \in S} :
        /\ Cardinality({x \in S : f[x] < v}) < k
        /\ Cardinality({x \in S : f[x] <= v}) >= k

\* twice np.median of the values f[x], x in S (S not empty)
Median2(f, S) ==
    LET n == Cardinality(S)
    IN  IF n % 2 = 1
        THEN 2 * KthSmallest(f, S, (n + 1) \div 2)
        ELSE KthSmallest(f, S, n \div 2) + KthSmallest(f, S, n \div 2 + 1)

-----------------------------------------------------------------------------
(* color_classifier.py *)

PINK_THRESHOLD == 500000
PURPLE_THRESHOLD == 300000
FALLBACK_THRESHOLD == 400000

\* class Confidence
HIGH == "high"
MEDIUM == "medium"
LOW == "low"

\* Python's None where a neighbour class is read
None == "None"

circular_hue_distance(h1, h2) ==
    LET diff == Abs(h1 - h2) IN Min(diff, 180 - diff)

\* compute_relative_score with sat_score = np.clip(...) instead of 1.0 - np.clip(...)
compute_relative_score_SatNotInverted(well_hsv, well_rgb, ctrl_hsv, ctrl_rgb, growth_sat2, inhib_sat2) ==
    LET w_h == well_hsv[1]
        w_s == well_hsv[2]
        c_h == ctrl_hsv[1]
        \* Feature 1: saturation distance
        sat_range2 == Max(inhib_sat2 - growth_sat2, 2 * 30)
        sat_normalized == Div(SCALE * (2 * w_s - growth_sat2), sat_range2)
        sat_score == Clip(sat_normalized, 0, SCALE)
        \* Feature 2: hue distance
        hue_dist == circular_hue_distance(w_h, c_h)
        hue_score == Max(0, SCALE - Div(SCALE * hue_dist, 35))
        \* Feature 3: R-B difference
        w_rb == well_rgb[1] - well_rgb[3]
        c_rb == ctrl_rgb[1] - ctrl_rgb[3]
        rb_score == IF Abs(c_rb) > 3
                    THEN Max(0, Min(SCALE, Clip(Div(SCALE * w_rb, c_rb), -200000, 1200000)))
                    ELSE IF w_rb > 0 THEN SCALE ELSE 0
        \* Feature 4: green channel depression; x / (sum / 3 + 1) = 3x / (sum + 3)
        w_g_ratio == Div(3 * SCALE * well_rgb[2], well_rgb[1] + well_rgb[2] + well_rgb[3] + 3)
        c_g_ratio == Div(3 * SCALE * ctrl_rgb[2], ctrl_rgb[1] + ctrl_rgb[2] + ctrl_rgb[3] + 3)
        g_diff == w_g_ratio - c_g_ratio
        g_score == Clip(SCALE + g_diff * 5, 0, SCALE)
        score == Div(40 * sat_score + 20 * hue_score + 20 * rb_score + 20 * g_score, 100)
    IN  Clip(score, 0, SCALE)

compute_relative_score(well_hsv, well_rgb, ctrl_hsv, ctrl_rgb, growth_sat2, inhib_sat2) ==
    LET w_h == well_hsv[1]
        w_s == well_hsv[2]
        c_h == ctrl_hsv[1]
        \* Feature 1: saturation distance
        sat_range2 == Max(inhib_sat2 - growth_sat2, 2 * 30)
        sat_normalized == Div(SCALE * (2 * w_s - growth_sat2), sat_range2)
        sat_score == SCALE - Clip(sat_normalized, 0, SCALE)
        \* Feature 2: hue distance
        hue_dist == circular_hue_distance(w_h, c_h)
        hue_score == Max(0, SCALE - Div(SCALE * hue_dist, 35))
        \* Feature 3: R-B difference
        w_rb == well_rgb[1] - well_rgb[3]
        c_rb == ctrl_rgb[1] - ctrl_rgb[3]
        rb_score == IF Abs(c_rb) > 3
                    THEN Max(0, Min(SCALE, Clip(Div(SCALE * w_rb, c_rb), -200000, 1200000)))
                    ELSE IF w_rb > 0 THEN SCALE ELSE 0
        \* Feature 4: green channel depression; x / (sum / 3 + 1) = 3x / (sum + 3)
        w_g_ratio == Div(3 * SCALE * well_rgb[2], well_rgb[1] + well_rgb[2] + well_rgb[3] + 3)
        c_g_ratio == Div(3 * SCALE * ctrl_rgb[2], ctrl_rgb[1] + ctrl_rgb[2] + ctrl_rgb[3] + 3)
        g_diff == w_g_ratio - c_g_ratio
        g_score == Clip(SCALE + g_diff * 5, 0, SCALE)
        score == Div(40 * sat_score + 20 * hue_score + 20 * rb_score + 20 * g_score, 100)
    IN  Clip(score, 0, SCALE)

compute_absolute_score(well_hsv, well_rgb, growth_sat2, inhib_sat2, sat_mid4) ==
    LET h == well_hsv[1]
        s == well_hsv[2]
        r == well_rgb[1]
        g == well_rgb[2]
        b == well_rgb[3]
        rb_diff == r - b
        \* saturation: t = (s - 35) / 15, score -= t * 0.15
        sat_adj == IF s < 35 THEN 350000
                   ELSE IF s > 80 THEN -400000
                   ELSE IF s > 50 THEN -200000
                   ELSE -((s - 35) * 10000)
        hue_adj == IF 145 <= h /\ h <= 165
                   THEN -150000 + (IF s > 60 THEN -100000 ELSE 0)
                   ELSE IF h >= 165 \/ h <= 12 THEN 100000 ELSE 0
        rb_adj == IF rb_diff < 0 THEN -100000
                  ELSE IF rb_diff > 15 THEN 100000 ELSE 0
        \* g < r * 0.7 and g < b * 0.8 and s > 50
        green_adj == IF 10 * g < 7 * r /\ 10 * g < 8 * b /\ s > 50 THEN -150000 ELSE 0
    IN  Clip(500000 + sat_adj + hue_adj + rb_adj + green_adj, 0, SCALE)

\* m.get(CONTROL_WELL) as it is used after the None check; when the key is missing
\* the fields read zero
NoData ==
    [hsv_median |-> <<0, 0, 0>>, rgb_mean |-> <<0, 0, 0>>, pixel_count |-> 0, growth_score |-> 0]
ControlData(m) == IF CONTROL_WELL \in DOMAIN m THEN m[CONTROL_WELL] ELSE NoData

\* Step 1 of classify_wells: the calibration anchors, doubled
IsGrowthProfile(data) ==
    data.hsv_median[2] < 35 /\ data.rgb_mean[1] - data.rgb_mean[3] > 10

\* IsInhibitionProfile without the hue band
IsInhibitionProfileAnyHue(data) ==
    /\ ~IsGrowthProfile(data)
    /\ data.hsv_median[2] > 80

IsInhibitionProfile(data) ==
    /\ ~IsGrowthProfile(data)
    /\ data.hsv_median[2] > 80
    /\ 140 <= data.hsv_median[1] /\ data.hsv_median[1] <= 165

Calibrate(w) ==
    LET sat == [k \in DOMAIN w |-> w[k].hsv_median[2]]
        growth_profiles == {k \in DOMAIN w : IsGrowthProfile(w[k])}
        inhibition_profiles == {k \in DOMAIN w : IsInhibitionProfile(w[k])}
        growth_sat2 == IF growth_profiles # {} THEN Median2(sat, growth_profiles)
                       ELSE 2 * ControlData(w).hsv_median[2]
        inhib_sat2 == IF inhibition_profiles # {} THEN Median2(sat, inhibition_profiles)
                      ELSE 2 * 140
    IN  [growth_sat2 |-> growth_sat2, inhib_sat2 |-> inhib_sat2,
         sat_mid4 |-> growth_sat2 + inhib_sat2]

\* growth_score = np.clip(RELATIVE_WEIGHT * rel + ABSOLUTE_WEIGHT * abs, 0, 1)
GrowthScore(rel_score, abs_score) ==
    Clip(Div(RELATIVE_WEIGHT * rel_score + ABSOLUTE_WEIGHT * abs_score, 100), 0, SCALE)

\* ThresholdClass with the two comparisons made inclusive
ThresholdClassInclusive(growth_score) ==
    IF growth_score >= PINK_THRESHOLD THEN <<"growth", HIGH>>
    ELSE IF growth_score <= PURPLE_THRESHOLD THEN <<"inhibition", HIGH>>
    ELSE <<"uncertain", LOW>>

\* Phase 1 threshold decision: <<classification, confidence>>
ThresholdClass(growth_score) ==
    IF growth_score > PINK_THRESHOLD THEN <<"growth", HIGH>>
    ELSE IF growth_score < PURPLE_THRESHOLD THEN <<"inhibition", HIGH>>
    ELSE <<"uncertain", LOW>>

\* one iteration of the Step 2 loop: the record stored in classified[(row, col)]
Phase1Well(data, control_data, cal) ==
    LET rel_score == compute_relative_score(data.hsv_median, data.rgb_mean,
                         control_data.hsv_median, control_data.rgb_mean,
                         cal.growth_sat2, cal.inhib_sat2)
        abs_score == compute_absolute_score(data.hsv_median, data.rgb_mean,
                         cal.growth_sat2, cal.inhib_sat2, cal.sat_mid4)
        growth_score == GrowthScore(rel_score, abs_score)
        tc == ThresholdClass(growth_score)
    IN  [growth_score |-> growth_score,
         relative_score |-> rel_score,
         absolute_score |-> abs_score,
         classification |-> tc[1],
         confidence |-> tc[2]] @@ data

\* apply_neighbor_rules without the rule 6 fallback: the well stays uncertain
apply_neighbor_rules_NoFallback(score, left_class, right_class) ==
    IF left_class = "growth" /\ right_class = "inhibition" THEN <<"inhibition", MEDIUM>>
    ELSE IF left_class = "growth" /\ right_class \in {"uncertain", None} THEN <<"growth", MEDIUM>>
    ELSE IF left_class \in {"uncertain", None} /\ right_class = "inhibition" THEN <<"inhibition", MEDIUM>>
    ELSE IF left_class = "growth" /\ right_class = "growth" THEN <<"growth", MEDIUM>>
    ELSE IF left_class = "inhibition" /\ right_class = "inhibition" THEN <<"inhibition", MEDIUM>>
    ELSE <<"uncertain", LOW>>

\* apply_neighbor_rules without rule 1: the transition point is left to the fallback
apply_neighbor_rules_NoRule1(score, left_class, right_class) ==
    IF left_class = "growth" /\ right_class \in {"uncertain", None} THEN <<"growth", MEDIUM>>
    ELSE IF left_class \in {"uncertain", None} /\ right_class = "inhibition" THEN <<"inhibition", MEDIUM>>
    ELSE IF left_class = "growth" /\ right_class = "growth" THEN <<"growth", MEDIUM>>
    ELSE IF left_class = "inhibition" /\ right_class = "inhibition" THEN <<"inhibition", MEDIUM>>
    ELSE IF score >= FALLBACK_THRESHOLD THEN <<"growth", LOW>>
    ELSE <<"inhibition", LOW>>

\* apply_neighbor_rules without rule 4: equal neighbours are left to the fallback
apply_neighbor_rules_NoRule4(score, left_class, right_class) ==
    IF left_class = "growth" /\ right_class = "inhibition" THEN <<"inhibition", MEDIUM>>
    ELSE IF left_class = "growth" /\ right_class \in {"uncertain", None} THEN <<"growth", MEDIUM>>
    ELSE IF left_class \in {"uncertain", None} /\ right_class = "inhibition" THEN <<"inhibition", MEDIUM>>
    ELSE IF score >= FALLBACK_THRESHOLD THEN <<"growth", LOW>>
    ELSE <<"inhibition", LOW>>

apply_neighbor_rules(score, left_class, right_class) ==
    IF left_class = "growth" /\ right_class = "inhibition" THEN <<"inhibition", MEDIUM>>
    ELSE IF left_class = "growth" /\ right_class \in {"uncertain", None} THEN <<"growth", MEDIUM>>
    ELSE IF left_class \in {"uncertain", None} /\ right_class = "inhibition" THEN <<"inhibition", MEDIUM>>
    ELSE IF left_class = "growth" /\ right_class = "growth" THEN <<"growth", MEDIUM>>
    ELSE IF left_class = "inhibition" /\ right_class = "inhibition" THEN <<"inhibition", MEDIUM>>
    ELSE IF left_class = None /\ right_class = "inhibition" THEN <<"inhibition", MEDIUM>>
    ELSE IF left_class = "growth" /\ right_class = None THEN <<"growth", MEDIUM>>
    ELSE IF score >= FALLBACK_THRESHOLD THEN <<"growth", LOW>>
    ELSE <<"inhibition", LOW>>

\* the scan of resolve_uncertain_wells: for row in range(ROWS): for col in range(COLS)
ScanLen == ROWS * COLS
ScanKey(i) == <<i \div COLS, i % COLS>>

\* LeftClass reading the class phase 1 gave the left neighbour, not its current one
LeftClassPhase1(cl, key) ==
    IF key[2] > 0 /\ <<key[1], key[2] - 1>> \in DOMAIN cl
    THEN ThresholdClass(cl[<<key[1], key[2] - 1>>].growth_score)[1] ELSE None

\* the neighbour classes resolve_uncertain_wells reads for the well at key
LeftClass(cl, key) ==
    IF key[2] > 0 /\ <<key[1], key[2] - 1>> \in DOMAIN cl
    THEN cl[<<key[1], key[2] - 1>>].classification ELSE None

\* RightClass taking the well visited next in the scan, across the row's end
RightClassWrapping(cl, key) ==
    LET i == key[1] * COLS + key[2] + 1
    IN  IF i < ROWS * COLS /\ ScanKey(i) \in DOMAIN cl THEN cl[ScanKey(i)].classification ELSE None

RightClass(cl, key) ==
    IF key[2] < COLS - 1 /\ <<key[1], key[2] + 1>> \in DOMAIN cl
    THEN cl[<<key[1], key[2] + 1>>].classification ELSE None

\* NextUncertain without the test for 'uncertain': every present well is resolved
NextPresent(cl, i) ==
    LET hits == {j \in i..(ScanLen - 1) : ScanKey(j) \in DOMAIN cl}
    IN  IF hits = {} THEN ScanLen ELSE CHOOSE j \in hits : \A m \in hits : j <= m

\* the scan index of the first well at or after index i that is present and uncertain
\* (the iterations before it hit `continue`); ScanLen when the scan runs out
NextUncertain(cl, i) ==
    LET hits == {j \in i..(ScanLen - 1) :
                    ScanKey(j) \in DOMAIN cl /\ cl[ScanKey(j)].classification = "uncertain"}
    IN  IF hits = {} THEN ScanLen ELSE CHOOSE j \in hits : \A m \in hits : j <= m

\* the body of the scan for one uncertain well
ResolveAt(cl, key) ==
    LET res == apply_neighbor_rules(cl[key].growth_score, LeftClass(cl, key), RightClass(cl, key))
    IN  [cl EXCEPT ![key].classification = res[1], ![key].confidence = res[2]]

\* resolve_uncertain_wells as a whole: the scan from index i to its end
RECURSIVE ResolveFrom(_, _)
ResolveFrom(cl, i) ==
    LET n == NextUncertain(cl, i)
    IN  IF n = ScanLen THEN cl ELSE ResolveFrom(ResolveAt(cl, ScanKey(n)), n + 1)

resolve_uncertain_wells(cl) == ResolveFrom(cl, 0)

\* ControlMissing testing the mapping for emptiness instead of the control's key
ControlMissingEmptyOnly(w) == DOMAIN w = {}

\* classify_wells raises ValueError when wells.get(CONTROL_WELL) is None
ControlMissing(w) == CONTROL_WELL \notin DOMAIN w

\* Phase1Complete one item early
Phase1CompleteEarly(rest) == Len(rest) <= 1

\* the loop `for (row, col), data in wells.items()` has yielded every item
Phase1Complete(rest) == rest = <<>>

\* classify_wells as a whole (defined when the control well is present)
classify_wells(w) ==
    LET cal == Calibrate(w)
        phase1 == [k \in DOMAIN w |-> Phase1Well(w[k], ControlData(w), cal)]
    IN  resolve_uncertain_wells(phase1)

-----------------------------------------------------------------------------
(* mic_calculator.py *)

\* MicControlMissing raising for a control of low growth score as well
MicControlMissingOrLow(m) ==
    IF CONTROL_WELL \in DOMAIN m THEN m[CONTROL_WELL].growth_score < 400000 ELSE TRUE

\* calculate_mic raises ValueError when classified_wells.get(CONTROL_WELL) is None
MicControlMissing(m) == CONTROL_WELL \notin DOMAIN m

\* lines 52-72: the column 12 edge artifact check (medians doubled)
Col12EdgeArtifact(m) ==
    LET sat == [k \in DOMAIN m |-> m[k].hsv_median[2]]
        col12 == {k \in DOMAIN m : k[2] = 11}
        col11 == {k \in DOMAIN m : k[2] = 10}
    IN  /\ col12 # {}
        /\ col11 # {}
        /\ Median2(sat, col12) < 2 * 25
        /\ 2 * Median2(sat, col11) > 3 * Median2(sat, col12)

\* lines 84-90: the growth scores of one row, None where the well is missing
WellScores(m, row_idx) ==
    [i \in 1..COLS |->
        IF <<row_idx, i - 1>> \in DOMAIN m THEN m[<<row_idx, i - 1>>].growth_score ELSE NoNumber]

\* lines 93-97: row H starts after the control well
StartCol(row_idx) == IF row_idx = 7 THEN 1 ELSE 0

\* Inhibition counting every well as fully inhibited when the control barely grew
Inhibition_LowControlInhibits(score, ctrl_growth_score) ==
    IF ctrl_growth_score > 10000
    THEN <<Max(0, ctrl_growth_score - score), ctrl_growth_score>>
    ELSE <<1, 1>>

\* lines 111-116: max(0, 1 - score / ctrl) as the exact fraction <<numerator, denominator>>
Inhibition(score, ctrl_growth_score) ==
    IF ctrl_growth_score > 10000
    THEN <<Max(0, ctrl_growth_score - score), ctrl_growth_score>>
    ELSE <<0, 1>>

\* line 118: inhibition >= threshold, the threshold in percent
MeetsThreshold(score, ctrl_growth_score, threshold) ==
    LET inhibition == Inhibition(score, ctrl_growth_score)
    IN  100 * inhibition[1] >= threshold * inhibition[2]

\* lines 105-121: the column at which the search loop breaks, None when it runs out
MicColumn(well_scores, start_col, ctrl_growth_score, threshold) ==
    LET hits == {c \in start_col..(COLS - 1) :
                    /\ well_scores[c + 1] # NoNumber
                    /\ MeetsThreshold(well_scores[c + 1], ctrl_growth_score, threshold)}
    IN  IF hits = {} THEN NoNumber ELSE CHOOSE c \in hits : \A d \in hits : c <= d

\* the values of mic_value: a concentration, the text '>c', or None
MicConc(c) == [kind |-> IF c = NoNumber THEN "None" ELSE "conc", conc |-> c]
MicAbove(c) == [kind |-> "above", conc |-> c]
MicNone == [kind |-> "None", conc |-> NoNumber]

\* lines 76-145: the result record of one row.  note is "", "above", "above_artifact",
\* "Belirlenemedi" or "at_most" (the texts '>c', '>c (kolon 12 ...)', 'Belirlenemedi', '<=c')
MicRow(m, row_idx, ctrl_growth_score, col12_edge_artifact) ==
    LET antifungal == ANTIFUNGALS(row_idx)
        concentrations == CONCENTRATIONS(row_idx)
        threshold == INHIBITION_THRESHOLDS(antifungal)
        well_scores == WellScores(m, row_idx)
        start_col == StartCol(row_idx)
        mic_column == MicColumn(well_scores, start_col, ctrl_growth_score, threshold)
        searched == IF mic_column # NoNumber THEN MicConc(concentrations[mic_column + 1])
                    ELSE MicNone
        all_growth == \A c \in start_col..(COLS - 1) :
                          well_scores[c + 1] # NoNumber /\ well_scores[c + 1] > 500000
        mic_value == IF searched.kind = "None" /\ all_growth
                     THEN MicAbove(concentrations[COLS])
                     ELSE searched
        edge_note == IF searched.kind = "None" /\ all_growth
                     THEN (IF col12_edge_artifact THEN "above_artifact" ELSE "above")
                     ELSE IF searched.kind = "None" THEN "Belirlenemedi"
                     ELSE ""
        note == IF mic_column = start_col /\ mic_value.kind = "conc" THEN "at_most"
                ELSE edge_note
    IN  [row |-> row_idx,
         antifungal |-> antifungal,
         mic_value |-> mic_value,
         mic_column |-> mic_column,
         inhibition_threshold |-> threshold,
         well_scores |-> well_scores,
         note |-> note]

\* calculate_mic as a whole (defined when the control well is present)
calculate_mic(m) ==
    LET ctrl_growth_score == ControlData(m).growth_score
        col12_edge_artifact == Col12EdgeArtifact(m)
    IN  [i \in 1..ROWS |-> MicRow(m, i - 1, ctrl_growth_score, col12_edge_artifact)]

-----------------------------------------------------------------------------
(* inputs of the classifier *)

\* colour samples: (h, s, v) medians on OpenCV's scale, (r, g, b) means
Sample(h, s, v, r, g, b, n) ==
    [hsv_median |-> <<h, s, v>>, rgb_mean |-> <<r, g, b>>, pixel_count |-> n]

Pink == Sample(172, 25, 200, 200, 150, 170, 60)
Purple == Sample(155, 150, 150, 120, 60, 140, 60)
\* with ControlGrey as the only calibration source these two score exactly 0.50 and 0.30
Mid50 == Sample(128, 35, 180, 103, 100, 100, 60)
Mid30 == Sample(128, 77, 180, 101, 100, 100, 60)
\* the sample _empty_well emits
ZeroSample == Sample(0, 0, 0, 0, 0, 0, 0)

Palette == {Pink, Purple, Mid50, Mid30, ZeroSample}

ControlGrey == Sample(100, 35, 200, 110, 200, 100, 60)
ControlPalette == {ControlGrey, ZeroSample}

\* the wells, besides the control, that an input mapping may contain: the last
\* NumWindow wells in scan order up to and including well (1, 1)
NumWindow == 5
WindowKeys == {ScanKey(i) : i \in (COLS + 2 - NumWindow)..(COLS + 1)}

InputMappings ==
    LET others == UNION {[D -> Palette] : D \in SUBSET WindowKeys}
        withControl == {(CONTROL_WELL :> c) @@ f : c \in ControlPalette, f \in others}
    IN  withControl \cup others

\* the keys of S as a sequence, in scan order or in reverse scan order
RECURSIVE KeySeq(_, _)
KeySeq(S, ascending) ==
    IF S = {} THEN <<>>
    ELSE LET idx(k) == k[1] * COLS + k[2]
             first == CHOOSE k \in S : \A m \in S :
                          IF ascending THEN idx(k) <= idx(m) ELSE idx(k) >= idx(m)
         IN  <<first>> \o KeySeq(S \ {first}, ascending)

\* a classified mapping handed to calculate_mic directly: the control well with one
\* of three scores or missing, and one row of wells (the other rows are missing)
ScoredWell(score, sat) ==
    [growth_score |-> score, hsv_median |-> <<150, sat, 180>>]

ControlScores == {900000, 350000, 5000}
RowScores == {900000, 600000, 450000, 90000}
TestRows == {0, 6, 7}

\* the scores fall linearly from 0.90 in column 0 to 0.05 in column 11
LinearRow == [c \in 0..(COLS - 1) |-> 900000 - (c * 850000) \div (COLS - 1)]

\* the first MaxFree columns hold any score or no well, the others all hold the same
MaxFree == 2
FreeRows ==
    {[c \in 0..(COLS - 1) |-> IF c < MaxFree THEN head[c] ELSE tail] :
        head \in [0..(MaxFree - 1) -> RowScores \cup {NoNumber}],
        tail \in RowScores \cup {NoNumber}}

MicInput(row_idx, scores, ctrl_score, lowSat12) ==
    LET cols == {c \in 0..(COLS - 1) : scores[c] # NoNumber}
        row == [k \in {<<row_idx, c>> : c \in cols} |->
                   ScoredWell(scores[k[2]], IF lowSat12 /\ k[2] = 11 THEN 10 ELSE 60)]
        rest == [k \in DOMAIN row \ {CONTROL_WELL} |-> row[k]]
    IN  IF ctrl_score = NoNumber THEN rest
        ELSE (CONTROL_WELL :> ScoredWell(ctrl_score, 60)) @@ rest

MicInputs ==
    {MicInput(r, sc, ctrl, low) :
        r \in TestRows, sc \in FreeRows \cup {LinearRow},
        ctrl \in ControlScores \cup {NoNumber}, low \in BOOLEAN}

NoKey == <<NoNumber, NoNumber>>
NoRead == [key |-> NoKey, left |-> None, right |-> None]
NoCalib == [growth_sat2 |-> 0, inhib_sat2 |-> 0, sat_mid4 |-> 0]

-----------------------------------------------------------------------------
(* well_extractor.py *)
\* Coordinates, radii and steps are floats in the code; here they are integers
\* counting hundredths of a pixel (PX units per pixel). Pixel indices, obtained
\* with int(), are plain integers.

PX == 100
WELL_MASK_RADIUS_FRACTION == 45      \* hundredths
SPECULAR_V_THRESHOLD == 245
MIN_SATURATION == 15

Slots == (0..(ROWS - 1)) \X (0..(COLS - 1))

\* Python round(p / q) for q > 0: nearest integer, a half goes to the even one
RoundDiv(p, q) ==
    LET f == (2 * p + q) \div (2 * q)
    IN  IF (2 * p + q) % (2 * q) = 0 /\ f % 2 = 1 THEN f - 1 ELSE f

\* Python round(v, 1) of a length
Round1(v) == RoundDiv(10 * v, PX) * (PX \div 10)

\* Python int() of a length: the pixel index, truncated towards zero
IntPx(v) == IF v >= 0 THEN v \div PX ELSE -((-v) \div PX)

\* the number of indices a[lo:hi] selects from an axis of n pixels (lo >= 0)
SliceLen(lo, hi, n) ==
    LET stop == IF hi < 0 THEN Max(hi + n, 0) ELSE Min(hi, n)
    IN  Max(stop - Min(lo, n), 0)

RECURSIVE SumOver(_, _)
SumOver(f, S) ==
    IF S = {} THEN 0
    ELSE LET x == CHOOSE y \in S : TRUE IN f[x] + SumOver(f, S \ {x})

\* detect_circles lines 118-122 and 140: the merge distance handed to _deduplicate
MinDist(size) == IntPx(Div(65 * Min(Div(size[1] * PX, 12), Div(size[2] * PX, 8)), 100))
MergeDist(size) == Div(MinDist(size) * PX, 2)

\* (x_i - x_j) ** 2 + (y_i - y_j) ** 2
Dist2(a, b) == (a[1] - b[1]) * (a[1] - b[1]) + (a[2] - b[2]) * (a[2] - b[2])

\* _deduplicate line 172 with the comparison made inclusive
CloserThanInclusive(a, b, merge_dist) == Dist2(a, b) <= merge_dist * merge_dist
\* _deduplicate line 172: np.sqrt(...) < merge_dist
CloserThan(a, b, merge_dist) == Dist2(a, b) < merge_dist * merge_dist

\* np.mean(cluster, axis=0)
ClusterMean(cs, cluster) ==
    LET n == Cardinality(cluster)
    IN  <<RoundDiv(SumOver([i \in cluster |-> cs[i][1]], cluster), n),
          RoundDiv(SumOver([i \in cluster |-> cs[i][2]], cluster), n),
          RoundDiv(SumOver([i \in cluster |-> cs[i][3]], cluster), n)>>

\* the loop of _deduplicate from index i on: the clusters it forms, in order
RECURSIVE DedupClusters(_, _, _, _, _)
DedupClusters(cs, merge_dist, i, used, clusters) ==
    IF i > Len(cs) THEN clusters
    ELSE IF i \in used THEN DedupClusters(cs, merge_dist, i + 1, used, clusters)
    ELSE LET cluster == {i} \cup {j \in (i + 1)..Len(cs) :
                                     j \notin used /\ CloserThan(cs[i], cs[j], merge_dist)}
         IN  DedupClusters(cs, merge_dist, i + 1, used \cup cluster, Append(clusters, cluster))

_deduplicate(cs, merge_dist) ==
    IF Len(cs) = 0 THEN cs
    ELSE LET clusters == DedupClusters(cs, merge_dist, 1, {}, <<>>)
         IN  [n \in 1..Len(clusters) |-> ClusterMean(cs, clusters[n])]

\* extract_wells, line 25
TooFewCirclesInclusive(n) == n <= 20
TooFewCircles(n) == n < 20

_naive_grid(img_w, img_h, med_r) ==
    LET sx == Div(img_w * PX, COLS)
        sy == Div(img_h * PX, ROWS)
        ox == Div(sx, 2)
        oy == Div(sy, 2)
    IN  [grid |-> [key \in Slots |->
                     [cx |-> ox + key[2] * sx, cy |-> oy + key[1] * sy,
                      radius |-> med_r, detected |-> FALSE]],
         params |-> <<ox, oy, sx, sy>>]

\* _estimate_step_from_pairs without the test of line 287: every unit distance counts
_estimate_step_from_pairs_AnyUnit(centers, axis, other_axis, expected_step, max_other_dist) ==
    LET n == Len(centers)
        pairs == {p \in (1..n) \X (1..n) : p[1] < p[2]}
        other_diff(p) == Abs(centers[p[1]][other_axis + 1] - centers[p[2]][other_axis + 1])
        axis_diff(p) == Abs(centers[p[1]][axis + 1] - centers[p[2]][axis + 1])
        n_steps(p) == RoundDiv(axis_diff(p), expected_step)
        kept == {p \in pairs :
                    /\ ~(other_diff(p) > max_other_dist)
                    /\ ~(2 * axis_diff(p) < expected_step)
                    /\ ~(n_steps(p) < 1 \/ n_steps(p) > 12)}
        unit_dist == [p \in kept |-> Div(axis_diff(p), n_steps(p))]
    IN  IF Cardinality(kept) < 5 THEN NoNumber
        ELSE Div(Median2(unit_dist, kept), 2)

\* axis and other_axis are 0 (x) or 1 (y); the result is NoNumber for None
_estimate_step_from_pairs(centers, axis, other_axis, expected_step, max_other_dist) ==
    LET n == Len(centers)
        pairs == {p \in (1..n) \X (1..n) : p[1] < p[2]}
        other_diff(p) == Abs(centers[p[1]][other_axis + 1] - centers[p[2]][other_axis + 1])
        axis_diff(p) == Abs(centers[p[1]][axis + 1] - centers[p[2]][axis + 1])
        n_steps(p) == RoundDiv(axis_diff(p), expected_step)
        kept == {p \in pairs :
                    /\ ~(other_diff(p) > max_other_dist)
                    /\ ~(2 * axis_diff(p) < expected_step)
                    /\ ~(n_steps(p) < 1 \/ n_steps(p) > 12)
                    /\ 7 * expected_step * n_steps(p) < 10 * axis_diff(p)
                    /\ 10 * axis_diff(p) < 13 * expected_step * n_steps(p)}
        unit_dist == [p \in kept |-> Div(axis_diff(p), n_steps(p))]
    IN  IF Cardinality(kept) < 5 THEN NoNumber
        ELSE Div(Median2(unit_dist, kept), 2)

\* the slot a centre rounds to, (row, col)
SlotOf(c, ox, oy, sx, sy) == <<RoundDiv(c[2] - oy, sy), RoundDiv(c[1] - ox, sx)>>

InGrid(key) == 0 <= key[1] /\ key[1] < ROWS /\ 0 <= key[2] /\ key[2] < COLS

\* err ** 2 of a centre against the predicted position of a slot
Err2(c, key, ox, oy, sx, sy) ==
    (c[1] - (ox + key[2] * sx)) * (c[1] - (ox + key[2] * sx))
    + (c[2] - (oy + key[1] * sy)) * (c[2] - (oy + key[1] * sy))

\* the centre rounds to a slot of the grid and err < max_step * twentieths / 20
Near(c, ox, oy, sx, sy, max_step, twentieths) ==
    LET key == SlotOf(c, ox, oy, sx, sy)
    IN  /\ InGrid(key)
        /\ 400 * Err2(c, key, ox, oy, sx, sy) < twentieths * twentieths * max_step * max_step

_score_grid(centers, ox, oy, sx, sy) ==
    Cardinality({SlotOf(centers[i], ox, oy, sx, sy) :
                    i \in {j \in 1..Len(centers) :
                              Near(centers[j], ox, oy, sx, sy, Max(sx, sy), 7)}})

\* fit_grid_robust, Step 1
EstimateSteps(centers, img_w, img_h) ==
    LET expected_sx == Div(img_w * PX, 12)
        expected_sy == Div(img_h * PX, 8)
        step_x == _estimate_step_from_pairs(centers, 0, 1, expected_sx, Div(4 * expected_sy, 10))
        step_y == _estimate_step_from_pairs(centers, 1, 0, expected_sy, Div(4 * expected_sx, 10))
    IN  [step_x |-> IF step_x = NoNumber THEN expected_sx ELSE step_x,
         step_y |-> IF step_y = NoNumber THEN expected_sy ELSE step_y]

\* fit_grid_robust, Step 2: the candidate origins along one axis
CandidateOrigins(coords, step, expected, guesses) ==
    {Round1(p[1] - p[2] * step) :
        p \in {q \in coords \X (0..(guesses - 1)) :
                  /\ -3 * step < 10 * (q[1] - q[2] * step)
                  /\ 10 * (q[1] - q[2] * step) < 15 * step}}
    \cup {Round1(Div(expected, 2))}

\* fit_grid_robust, Step 2: the loop keeps the first origin of the highest score
\* in the iteration order of two sets, which the language leaves open; these
\* are the origins some order selects
BestOrigins(centers, img_w, img_h, step_x, step_y) ==
    LET candidate_ox == CandidateOrigins({centers[i][1] : i \in 1..Len(centers)},
                                         step_x, Div(img_w * PX, 12), COLS)
        candidate_oy == CandidateOrigins({centers[i][2] : i \in 1..Len(centers)},
                                         step_y, Div(img_h * PX, 8), ROWS)
        score == [o \in candidate_ox \X candidate_oy |->
                     _score_grid(centers, o[1], o[2], step_x, step_y)]
    IN  {o \in DOMAIN score : \A o2 \in DOMAIN score : score[o] >= score[o2]}

\* np.linalg.lstsq of y against [1, u] over the points S: <<intercept, slope>>
lstsq(u, y, S) ==
    LET n == Cardinality(S)
        Su == SumOver(u, S)
        Sy == SumOver(y, S)
        Suu == SumOver([i \in S |-> u[i] * u[i]], S)
        Suy == SumOver([i \in S |-> u[i] * y[i]], S)
        den == n * Suu - Su * Su
    IN  IF den # 0
        THEN LET slope == RoundDiv(n * Suy - Su * Sy, den)
             IN  <<RoundDiv(Sy - slope * Su, n), slope>>
        ELSE LET c == Su \div n                    \* one column: minimum-norm solution
                 a == RoundDiv(Sy, n * (1 + c * c))
             IN  <<a, c * a>>

\* _refine_grid_lsq: the circles one iteration keeps
GoodCircles(cs, f) ==
    {i \in 1..Len(cs) : Near(cs[i], f.ox, f.oy, f.sx, f.sy, Max(f.step_x, f.step_y), 7)}

\* _refine_grid_lsq: one iteration that does not break
RefineOnce(cs, f) ==
    LET S == GoodCircles(cs, f)
        key == [i \in S |-> SlotOf(cs[i], f.ox, f.oy, f.sx, f.sy)]
        fx == lstsq([i \in S |-> key[i][2]], [i \in S |-> cs[i][1]], S)
        fy == lstsq([i \in S |-> key[i][1]], [i \in S |-> cs[i][2]], S)
    IN  [f EXCEPT !.ox = fx[1], !.sx = fx[2], !.oy = fy[1], !.sy = fy[2],
                  !.iteration = f.iteration + 1]

\* _assign_circles replacing the slot's holder on an equal error too (err <= old_err)
_assign_circles_LastOnTie(cs, ox, oy, sx, sy) ==
    LET near == {i \in 1..Len(cs) : Near(cs[i], ox, oy, sx, sy, Max(sx, sy), 9)}
        key == [i \in near |-> SlotOf(cs[i], ox, oy, sx, sy)]
        err2 == [i \in near |-> Err2(cs[i], key[i], ox, oy, sx, sy)]
        kept(i) == \A j \in near :
                      key[j] = key[i] => (err2[i] < err2[j] \/ (err2[i] = err2[j] /\ i >= j))
    IN  [k \in {key[i] : i \in near} |-> cs[CHOOSE i \in near : key[i] = k /\ kept(i)]]

\* lines 356-382: per slot the candidate of least error, the earliest of them
\* in the input when errors are equal (a later one replaces only if err < old_err)
_assign_circles(cs, ox, oy, sx, sy) ==
    LET near == {i \in 1..Len(cs) : Near(cs[i], ox, oy, sx, sy, Max(sx, sy), 9)}
        key == [i \in near |-> SlotOf(cs[i], ox, oy, sx, sy)]
        err2 == [i \in near |-> Err2(cs[i], key[i], ox, oy, sx, sy)]
        kept(i) == \A j \in near :
                      key[j] = key[i] => (err2[i] < err2[j] \/ (err2[i] = err2[j] /\ i <= j))
    IN  [k \in {key[i] : i \in near} |-> cs[CHOOSE i \in near : key[i] = k /\ kept(i)]]

\* fit_grid_robust, "Build grid"
BuildGridAssignedOnly(assignments, ox, oy, sx, sy, med_r) ==
    [key \in DOMAIN assignments |->
        [cx |-> assignments[key][1], cy |-> assignments[key][2],
         radius |-> assignments[key][3], detected |-> TRUE]]
BuildGrid(assignments, ox, oy, sx, sy, med_r) ==
    [key \in Slots |->
        IF key \in DOMAIN assignments
        THEN [cx |-> assignments[key][1], cy |-> assignments[key][2],
              radius |-> assignments[key][3], detected |-> TRUE]
        ELSE [cx |-> ox + key[2] * sx, cy |-> oy + key[1] * sy,
              radius |-> med_r, detected |-> FALSE]]

_empty_well(cx, cy) ==
    [hsv_median |-> <<0, 0, 0>>, rgb_mean |-> <<0, 0, 0>>, pixel_count |-> 0,
     center |-> <<cx, cy>>, cell_bounds |-> <<0, 0, 0, 0>>, radius |-> 0,
     detected |-> FALSE]

\* the crop plate_image[y1:y2, x1:x2] of a slot
CropBounds(img, gdata) ==
    LET cx == IntPx(gdata.cx)
        cy == IntPx(gdata.cy)
        r == IntPx(gdata.radius)
        y1 == Max(0, cy - r)
        y2 == Min(img.h, cy + r)
        x1 == Max(0, cx - r)
        x2 == Min(img.w, cx + r)
    IN  [cx |-> cx, cy |-> cy, r |-> r, x1 |-> x1, y1 |-> y1, x2 |-> x2, y2 |-> y2,
         ch |-> SliceLen(y1, y2, img.h), cw |-> SliceLen(x1, x2, img.w)]

CropTooSmall(img, gdata) ==
    CropBounds(img, gdata).ch < 5 \/ CropBounds(img, gdata).cw < 5

\* the pixels of the crop that cv2.circle fills (the disc is taken as the
\* lattice points within sample_r of the centre)
MaskCount(local_cx, local_cy, sample_r, cw, ch) ==
    Cardinality({p \in (Max(0, local_cx - sample_r)..Min(cw - 1, local_cx + sample_r))
                       \X (Max(0, local_cy - sample_r)..Min(ch - 1, local_cy + sample_r)) :
                    (p[1] - local_cx) * (p[1] - local_cx)
                    + (p[2] - local_cy) * (p[2] - local_cy) <= sample_r * sample_r})

\* the painted scenes: a plate whose left half grew, and a washed-out plate
Washed == Sample(0, 5, 250, 250, 250, 250, 0)
SceneColour(img, x) ==
    IF img.scene = "washed" THEN Washed
    ELSE IF 2 * x < img.w THEN Pink ELSE Purple

PixelValid(colour) ==
    colour.hsv_median[3] < SPECULAR_V_THRESHOLD /\ colour.hsv_median[2] > MIN_SATURATION

\* the mask pixels left of the centre: in the scene "glare" each well has a
\* specular highlight there, of the colour Washed
GlareCount(local_cx, local_cy, sample_r, cw, ch) ==
    Cardinality({p \in (Max(0, local_cx - sample_r)..Min(cw - 1, local_cx - 1))
                       \X (Max(0, local_cy - sample_r)..Min(ch - 1, local_cy + sample_r)) :
                    (p[1] - local_cx) * (p[1] - local_cx)
                    + (p[2] - local_cy) * (p[2] - local_cy) <= sample_r * sample_r})

\* np.median of na values a and nb values b, na + nb > 0 (halves are dropped)
MedianOfTwo(a, na, b, nb) ==
    IF na > nb THEN a ELSE IF nb > na THEN b ELSE Div(a + b, 2)

\* circular_median_hue of na hues a and nb hues b
circular_median_hue(a, na, b, nb) ==
    LET lo == (na > 0 /\ a < 30) \/ (nb > 0 /\ b < 30)
        hi == (na > 0 /\ a > 150) \/ (nb > 0 /\ b > 150)
    IN  IF lo /\ hi
        THEN (MedianOfTwo((a + 90) % 180, na, (b + 90) % 180, nb) - 90) % 180
        ELSE MedianOfTwo(a, na, b, nb)

\* lines 86-95 over na pixels of colour a and nb pixels of colour b, na + nb > 0
\* (means are rounded to the unit the colours are held in)
MixedColour(a, na, b, nb) ==
    [hsv_median |-> <<circular_median_hue(a.hsv_median[1], na, b.hsv_median[1], nb),
                      MedianOfTwo(a.hsv_median[2], na, b.hsv_median[2], nb),
                      MedianOfTwo(a.hsv_median[3], na, b.hsv_median[3], nb)>>,
     rgb_mean |-> [i \in 1..3 |->
                     RoundDiv(na * a.rgb_mean[i] + nb * b.rgb_mean[i], na + nb)]]

\* SampleWell without the relaxation of lines 82-84: too few valid pixels stay
\* the sample
SampleWellNoRelax(img, gdata) ==
    LET b == CropBounds(img, gdata)
        sample_r == (b.r * WELL_MASK_RADIUS_FRACTION) \div 100
        mask == MaskCount(b.cx - b.x1, b.cy - b.y1, sample_r, b.cw, b.ch)
        colour == SceneColour(img, b.cx)
        glare == IF img.scene = "glare"
                 THEN GlareCount(b.cx - b.x1, b.cy - b.y1, sample_r, b.cw, b.ch) ELSE 0
        combined == IF PixelValid(colour) THEN mask - glare ELSE 0
    IN  IF b.ch < 5 \/ b.cw < 5 THEN _empty_well(b.cx, b.cy)
        ELSE IF combined > 0
        THEN [hsv_median |-> colour.hsv_median, rgb_mean |-> colour.rgb_mean,
              pixel_count |-> combined, center |-> <<b.cx, b.cy>>,
              cell_bounds |-> <<b.x1, b.y1, b.x2, b.y2>>, radius |-> b.r,
              detected |-> gdata.detected]
        ELSE _empty_well(b.cx, b.cy)

\* the body of the sampling loop of extract_wells for one slot; the pixels
\* under one mask share one colour, but for the highlight of the scene "glare"
SampleWell(img, gdata) ==
    LET b == CropBounds(img, gdata)
        sample_r == (b.r * WELL_MASK_RADIUS_FRACTION) \div 100
        mask == MaskCount(b.cx - b.x1, b.cy - b.y1, sample_r, b.cw, b.ch)
        colour == SceneColour(img, b.cx)
        glare == IF img.scene = "glare"
                 THEN GlareCount(b.cx - b.x1, b.cy - b.y1, sample_r, b.cw, b.ch) ELSE 0
        combined == IF PixelValid(colour) THEN mask - glare ELSE 0
        valid == IF combined < 10 THEN mask ELSE combined
        sampled == IF combined < 10 /\ mask > 0
                   THEN MixedColour(colour, mask - glare, Washed, glare) ELSE colour
    IN  IF b.ch < 5 \/ b.cw < 5 THEN _empty_well(b.cx, b.cy)
        ELSE IF valid > 0
        THEN [hsv_median |-> sampled.hsv_median, rgb_mean |-> sampled.rgb_mean,
              pixel_count |-> valid, center |-> <<b.cx, b.cy>>,
              cell_bounds |-> <<b.x1, b.y1, b.x2, b.y2>>, radius |-> b.r,
              detected |-> gdata.detected]
        ELSE _empty_well(b.cx, b.cy)

\* classify_wells or calculate_mic called on a mapping of its own: nothing was extracted
NoFit == [step_x |-> 0, step_y |-> 0, ox |-> 0, oy |-> 0, sx |-> 0, sy |-> 0, iteration |-> 0]
\* _deduplicate is not being run; no fit has been observed
NoOrigin == <<NoNumber, NoNumber>>
NoParams == <<0, 0, 0, 0>>
NoDetection == stacked = <<>> /\ deduped = <<>>
NoEarlierRun == set_order = NoOrigin /\ first_run = NoParams

NoExtraction ==
    /\ image = [w |-> 0, h |-> 0, scene |-> "none"]
    /\ circles = <<>>
    /\ med_radius = 0
    /\ fit = NoFit
    /\ grid = <<>>
    /\ grid_params = <<0, 0, 0, 0>>
    /\ NoDetection
    /\ NoEarlierRun

-----------------------------------------------------------------------------
(* classify_wells, step by step *)

InitClassify ==
    /\ wells \in InputMappings
    /\ \E ascending \in BOOLEAN : todo = KeySeq(DOMAIN wells, ascending)
    /\ calib = NoCalib
    /\ classified = <<>>
    /\ pc = "classify_wells"
    /\ scan = 0
    /\ nbr = NoRead
    /\ results = <<>>
    /\ NoExtraction

\* lines 44-49: the control lookup fails
ClassifyAbort ==
    /\ pc = "classify_wells"
    /\ ControlMissing(wells)
    /\ pc' = "error"
    /\ UNCHANGED <<wells, todo, calib, classified, scan, nbr, results, evars, dvars, rvars>>

\* lines 51-78: calibration
ClassifyCalibrate ==
    /\ pc = "classify_wells"
    /\ ~ControlMissing(wells)
    /\ calib' = Calibrate(wells)
    /\ pc' = "phase1"
    /\ UNCHANGED <<wells, todo, classified, scan, nbr, results, evars, dvars, rvars>>

\* lines 84-120: one iteration of the phase 1 loop
Phase1Step ==
    /\ pc = "phase1"
    /\ ~Phase1Complete(todo)
    /\ LET k == Head(todo)
       IN  classified' = (k :> Phase1Well(wells[k], ControlData(wells), calib)) @@ classified
    /\ todo' = Tail(todo)
    /\ UNCHANGED <<wells, calib, pc, scan, nbr, results, evars, dvars, rvars>>

\* line 125: the call of resolve_uncertain_wells
ResolveStart ==
    /\ pc = "phase1"
    /\ Phase1Complete(todo)
    /\ pc' = "resolve"
    /\ scan' = 0
    /\ UNCHANGED <<wells, todo, calib, classified, nbr, results, evars, dvars, rvars>>

\* lines 151-173: the scan advances to the next uncertain well and resolves it
ResolveStep ==
    /\ pc = "resolve"
    /\ LET n == NextUncertain(classified, scan)
       IN  /\ n < ScanLen
           /\ nbr' = [key |-> ScanKey(n),
                      left |-> LeftClass(classified, ScanKey(n)),
                      right |-> RightClass(classified, ScanKey(n))]
           /\ classified' = ResolveAt(classified, ScanKey(n))
           /\ scan' = n + 1
    /\ UNCHANGED <<wells, todo, calib, pc, results, evars, dvars, rvars>>

\* lines 151-155, 177, 139: the scan runs out, classify_wells returns classified
ResolveReturn ==
    /\ pc = "resolve"
    /\ NextUncertain(classified, scan) = ScanLen
    /\ scan' = ScanLen
    /\ pc' = "done"
    /\ UNCHANGED <<wells, todo, calib, classified, nbr, results, evars, dvars, rvars>>

-----------------------------------------------------------------------------
(* calculate_mic, called on the classifier's output or directly *)

InitMic ==
    /\ classified \in MicInputs
    /\ wells = <<>>
    /\ todo = <<>>
    /\ calib = NoCalib
    /\ pc = "calculate_mic"
    /\ scan = 0
    /\ nbr = NoRead
    /\ results = <<>>
    /\ NoExtraction

\* lines 38-42: the control lookup fails
MicAbort ==
    /\ pc \in {"done", "calculate_mic"}
    /\ MicControlMissing(classified)
    /\ pc' = "mic_error"
    /\ UNCHANGED <<wells, todo, calib, classified, scan, nbr, results, evars, dvars, rvars>>

\* lines 44-147
MicCall ==
    /\ pc \in {"done", "calculate_mic"}
    /\ ~MicControlMissing(classified)
    /\ results' = calculate_mic(classified)
    /\ pc' = "mic_done"
    /\ UNCHANGED <<wells, todo, calib, classified, scan, nbr, evars, dvars, rvars>>

NextClassify ==
    \/ ClassifyAbort
    \/ ClassifyCalibrate
    \/ Phase1Step
    \/ ResolveStart
    \/ ResolveStep
    \/ ResolveReturn

Init == InitClassify \/ InitMic

Next == NextClassify \/ MicAbort \/ MicCall

Spec == Init /\ [][Next]_vars

-----------------------------------------------------------------------------
(* extract_wells, step by step, then the rest of run_pipeline *)

\* plate images, (width, height) in pixels
ImageSizes == {<<240, 160>>, <<240, 120>>, <<120, 80>>, <<60, 40>>}
Scenes == {"gradient", "washed"}

\* detect_circles, lines 118-119
ExpectedCell(size) == Min(Div(size[1] * PX, 12), Div(size[2] * PX, 8))
ExpectedR(size) == Div(42 * ExpectedCell(size), 100)

\* detect_circles lines 143-145: radii >= med_r * 0.6 and radii <= med_r * 1.4,
\* med_r2 being twice the median
RadiusKept(c, med_r2) == 20 * c[3] >= 6 * med_r2 /\ 20 * c[3] <= 14 * med_r2

\* lines 149-153: the centre is more than edge_margin = med_r * 0.5 inside the image
EdgeKept(c, med_r2, size) ==
    /\ 4 * c[1] > med_r2
    /\ 4 * c[1] < 4 * size[1] * PX - med_r2
    /\ 4 * c[2] > med_r2
    /\ 4 * c[2] < 4 * size[2] * PX - med_r2

\* twice np.median(cs[:, 2]) of a sequence that is not empty
MedianRadius2(cs) == Median2([i \in 1..Len(cs) |-> cs[i][3]], 1..Len(cs))

\* detect_circles returning the median of the radii the filters have left
detect_circles_MedianAfter(all_circles, size) ==
    IF Len(all_circles) = 0
    THEN [circles |-> <<>>, med_r |-> ExpectedR(size), deduped |-> <<>>]
    ELSE LET dd == _deduplicate(all_circles, MergeDist(size))
             med_r2 == MedianRadius2(dd)
             Kept(c) == RadiusKept(c, med_r2) /\ EdgeKept(c, med_r2, size)
             filtered == SelectSeq(dd, Kept)
         IN  [circles |-> filtered,
              med_r |-> IF Len(filtered) = 0 THEN Div(med_r2, 2)
                        ELSE Div(MedianRadius2(filtered), 2),
              deduped |-> dd]

\* detect_circles from line 136 on: all_circles is what the Hough passes found
detect_circles(all_circles, size) ==
    IF Len(all_circles) = 0
    THEN [circles |-> <<>>, med_r |-> ExpectedR(size), deduped |-> <<>>]
    ELSE LET dd == _deduplicate(all_circles, MergeDist(size))
             med_r2 == MedianRadius2(dd)
             Kept(c) == RadiusKept(c, med_r2) /\ EdgeKept(c, med_r2, size)
         IN  [circles |-> SelectSeq(dd, Kept), med_r |-> Div(med_r2, 2), deduped |-> dd]

\* candidate lattices: pitch and first centre in hundredths of the image's cell
Pitches == {<<100, 100>>, <<75, 125>>}
FirstCentres == {50, 140}
BlockRows == {3, 4}
MaxBlockCols == 6

Lattice(x0, y0, dx, dy, nr, nc, rad) ==
    [i \in 1..(nr * nc) |-> <<x0 + ((i - 1) % nc) * dx, y0 + ((i - 1) \div nc) * dy, rad>>]

\* what detect_circles may hand over: a block of a lattice, with or without
\* one more candidate a quarter cell off the first
DetectedCircles(size, pitch, first, nr, nc, stray) ==
    LET cell_x == Div(size[1] * PX, 12)
        cell_y == Div(size[2] * PX, 8)
        x0 == Div(first * cell_x, 100)
        y0 == Div(cell_y, 2)
        block == Lattice(x0, y0, Div(pitch[1] * cell_x, 100), Div(pitch[2] * cell_y, 100),
                         nr, nc, ExpectedR(size))
    IN  IF stray
        THEN Append(block, <<x0 + Div(cell_x, 4), y0 + Div(cell_y, 4), ExpectedR(size)>>)
        ELSE block

NoClassification ==
    /\ todo = <<>>
    /\ calib = NoCalib
    /\ classified = <<>>
    /\ scan = 0
    /\ nbr = NoRead
    /\ results = <<>>

\* lines 20-22
InitExtract ==
    /\ \E size \in ImageSizes, scene \in Scenes :
          /\ image = [w |-> size[1], h |-> size[2], scene |-> scene]
          /\ \/ circles = <<>>
             \/ \E pitch \in Pitches, first \in FirstCentres, nr \in BlockRows,
                   nc \in (MaxBlockCols - 2)..MaxBlockCols, stray \in BOOLEAN :
                   circles = DetectedCircles(size, pitch, first, nr, nc, stray)
          /\ med_radius = ExpectedR(size)
    /\ fit = NoFit
    /\ grid = <<>>
    /\ grid_params = <<0, 0, 0, 0>>
    /\ wells = <<>>
    /\ pc = "extract_wells"
    /\ NoClassification
    /\ NoDetection
    /\ NoEarlierRun

\* lines 25-27
ExtractNaive ==
    /\ pc = "extract_wells"
    /\ TooFewCircles(Len(circles))
    /\ grid' = _naive_grid(image.w, image.h, med_radius).grid
    /\ grid_params' = _naive_grid(image.w, image.h, med_radius).params
    /\ pc' = "sample"
    /\ UNCHANGED <<cvars, image, circles, med_radius, fit, dvars, rvars>>

\* lines 28-29 and fit_grid_robust lines 192-207
FitEstimate ==
    /\ pc = "extract_wells"
    /\ ~TooFewCircles(Len(circles))
    /\ LET st == EstimateSteps(circles, image.w, image.h)
       IN  fit' = [NoFit EXCEPT !.step_x = st.step_x, !.step_y = st.step_y]
    /\ pc' = "fit_origin"
    /\ UNCHANGED <<cvars, image, circles, med_radius, grid, grid_params, dvars, rvars>>

\* FitOrigin with the sets enumerated in a fresh order on every call
FitOriginAnyOrder ==
    /\ pc = "fit_origin"
    /\ \E o \in BestOrigins(circles, image.w, image.h, fit.step_x, fit.step_y) :
          /\ set_order' = o
          /\ fit' = [fit EXCEPT !.ox = o[1], !.oy = o[2], !.sx = fit.step_x, !.sy = fit.step_y]
    /\ pc' = "refine"
    /\ UNCHANGED <<cvars, image, circles, med_radius, grid, grid_params, dvars, first_run>>

\* fit_grid_robust lines 209-235, and the entry of _refine_grid_lsq. The loops
\* enumerate two sets of floats; their order is the runtime's, a function of
\* the values inserted (float hashes are not salted), so it is the same each
\* time the same candidates are fitted: set_order records it once seen.
FitOrigin ==
    /\ pc = "fit_origin"
    /\ \E o \in BestOrigins(circles, image.w, image.h, fit.step_x, fit.step_y) :
          /\ set_order \in {NoOrigin, o}
          /\ set_order' = o
          /\ fit' = [fit EXCEPT !.ox = o[1], !.oy = o[2], !.sx = fit.step_x, !.sy = fit.step_y]
    /\ pc' = "refine"
    /\ UNCHANGED <<cvars, image, circles, med_radius, grid, grid_params, dvars, first_run>>

\* RefineStep without the break of lines 341-342
RefineStepNoBreak ==
    /\ pc = "refine"
    /\ fit.iteration < 3
    /\ fit' = RefineOnce(circles, fit)
    /\ UNCHANGED <<cvars, pc, image, circles, med_radius, grid, grid_params, dvars, rvars>>

\* _refine_grid_lsq lines 322-351
RefineStep ==
    /\ pc = "refine"
    /\ fit.iteration < 3
    /\ ~(Cardinality(GoodCircles(circles, fit)) < 20)
    /\ fit' = RefineOnce(circles, fit)
    /\ UNCHANGED <<cvars, pc, image, circles, med_radius, grid, grid_params, dvars, rvars>>

\* _refine_grid_lsq lines 341-342 and 353, then fit_grid_robust lines 241-259
FitReturn ==
    /\ pc = "refine"
    /\ fit.iteration = 3 \/ Cardinality(GoodCircles(circles, fit)) < 20
    /\ grid' = BuildGrid(_assign_circles(circles, fit.ox, fit.oy, fit.sx, fit.sy),
                         fit.ox, fit.oy, fit.sx, fit.sy, med_radius)
    /\ grid_params' = <<fit.ox, fit.oy, fit.sx, fit.sy>>
    /\ pc' = "sample"
    /\ UNCHANGED <<cvars, image, circles, med_radius, fit, dvars, rvars>>

\* lines 52-107
SampleWells ==
    /\ pc = "sample"
    /\ wells' = [key \in DOMAIN grid |-> SampleWell(image, grid[key])]
    /\ pc' = "extracted"
    /\ UNCHANGED <<todo, calib, classified, scan, nbr, results, evars, dvars, rvars>>

\* main.py run_pipeline: classify_wells(wells)
PipelineClassify ==
    /\ pc = "extracted"
    /\ ~ControlMissing(wells)
    /\ classified' = classify_wells(wells)
    /\ pc' = "done"
    /\ UNCHANGED <<wells, todo, calib, scan, nbr, results, evars, dvars, rvars>>

NextExtract ==
    \/ ExtractNaive
    \/ FitEstimate
    \/ FitOrigin
    \/ RefineStep
    \/ FitReturn
    \/ SampleWells
    \/ PipelineClassify
    \/ MicCall

SpecExtract == InitExtract /\ [][NextExtract]_vars

-----------------------------------------------------------------------------
(* classify_wells on a saturation sweep: the control and two wells of one tint *)

\* hue and RGB of the two wells; the last is what _empty_well emits
SweepTints == {<<128, <<103, 100, 100>>>>, <<155, <<120, 60, 140>>>>,
               <<172, <<200, 150, 170>>>>, <<5, <<100, 60, 100>>>>, <<0, <<0, 0, 0>>>>}
SweepSats == {0, 20, 34, 35, 42, 50, 51, 60, 61, 80, 81, 141, 170, 200, 215, 230, 255}

Tinted(tint, sat) ==
    Sample(tint[1], sat, 180, tint[2][1], tint[2][2], tint[2][3], 60)

\* control wells: grey, empty, pink, purple (red below blue), saturated with red = blue
ControlSaturated == Sample(172, 200, 200, 150, 120, 150, 60)
SweepControls == {ControlGrey, ZeroSample, Pink, Purple, ControlSaturated}

SweepKeys == {<<0, 0>>, <<0, 1>>}

InitScore ==
    /\ \E c \in SweepControls, tint \in SweepTints, s1 \in SweepSats, s2 \in SweepSats :
          /\ s1 <= s2
          /\ wells = (CONTROL_WELL :> c) @@ (<<0, 0>> :> Tinted(tint, s1))
                                         @@ (<<0, 1>> :> Tinted(tint, s2))
    /\ todo = KeySeq(DOMAIN wells, TRUE)
    /\ calib = NoCalib
    /\ classified = <<>>
    /\ pc = "classify_wells"
    /\ scan = 0
    /\ nbr = NoRead
    /\ results = <<>>
    /\ NoExtraction

NextScore ==
    \/ ClassifyCalibrate
    \/ Phase1Step
    \/ ResolveStart
    \/ ResolveStep
    \/ ResolveReturn

SpecScore == InitScore /\ [][NextScore]_vars

-----------------------------------------------------------------------------
(* fit_grid_robust run twice on the same candidates *)

InitRefit ==
    /\ InitExtract
    /\ ~TooFewCircles(Len(circles))

\* the first grid is kept aside and the fitter is called again
FitAgain ==
    /\ pc = "sample"
    /\ first_run = NoParams
    /\ first_run' = grid_params
    /\ fit' = NoFit
    /\ grid' = <<>>
    /\ grid_params' = NoParams
    /\ pc' = "extract_wells"
    /\ UNCHANGED <<cvars, image, circles, med_radius, dvars, set_order>>

NextRefit ==
    \/ FitEstimate
    \/ FitOrigin
    \/ RefineStep
    \/ FitReturn
    \/ FitAgain

SpecRefit == InitRefit /\ [][NextRefit]_vars

-----------------------------------------------------------------------------
(* _deduplicate on the detections of one image *)

\* detections around one well: offsets from a first centre in hundredths of
\* the merge distance (0.6 and 0.8 make a 3-4-5 triangle, so two of them lie
\* at the merge distance exactly), and two radii
NearOffsets == {<<0, 0>>, <<60, 0>>, <<120, 0>>, <<100, 0>>, <<60, 80>>}
MaxStacked == 3

StackedCircles(size) ==
    LET md == MergeDist(size)
        one == {<<10 * PX + Div(o[1] * md, 100), 10 * PX + Div(o[2] * md, 100), r>> :
                   o \in NearOffsets, r \in {ExpectedR(size), ExpectedR(size) + 2 * PX}}
    IN  UNION {[1..n -> one] : n \in 0..MaxStacked}

\* detect_circles line 139
InitDedup ==
    /\ \E size \in ImageSizes :
          /\ image = [w |-> size[1], h |-> size[2], scene |-> "none"]
          /\ stacked \in StackedCircles(size)
    /\ deduped = <<>>
    /\ pc = "_deduplicate"
    /\ circles = <<>>
    /\ med_radius = 0
    /\ fit = NoFit
    /\ grid = <<>>
    /\ grid_params = <<0, 0, 0, 0>>
    /\ wells = <<>>
    /\ NoClassification
    /\ NoEarlierRun

\* _deduplicate lines 160-161
DedupEmpty ==
    /\ pc = "_deduplicate"
    /\ Len(stacked) = 0
    /\ deduped' = stacked
    /\ pc' = "deduplicated"
    /\ UNCHANGED <<cvars, evars, stacked, rvars>>

\* _deduplicate lines 162-176
DedupMerge ==
    /\ pc = "_deduplicate"
    /\ Len(stacked) # 0
    /\ deduped' = _deduplicate(stacked, MergeDist(<<image.w, image.h>>))
    /\ pc' = "deduplicated"
    /\ UNCHANGED <<cvars, evars, stacked, rvars>>

NextDedup == DedupEmpty \/ DedupMerge

SpecDedup == InitDedup /\ [][NextDedup]_vars

-----------------------------------------------------------------------------
(* detect_circles on what the Hough passes found *)

MaxFound == 3

\* candidates of the Hough passes: centre in hundredths of the expected cell,
\* radius in hundredths of the expected radius (minRadius is 0.5 and maxRadius
\* 1.3 of it). Two lie inside the plate a cell apart and a third next to the
\* first; one has a radius of 0.5 and one of 0.6; one lies at 0.21 of a cell
\* from the left border (0.5 of the expected radius), one just inside of
\* that, one at 0.21 from the right border, one at 0.21 from the top
FoundPoints ==
    {<<150, 150, 100>>, <<250, 150, 100>>, <<160, 150, 130>>, <<350, 150, 50>>,
     <<450, 150, 60>>, <<21, 250, 100>>, <<22, 350, 100>>, <<-21, 450, 100>>,
     <<550, 21, 100>>}

FoundCircle(p, size) ==
    LET cell == ExpectedCell(size)
        x == IF p[1] >= 0 THEN Div(p[1] * cell, 100) ELSE size[1] * PX + Div(p[1] * cell, 100)
    IN  <<x, Div(p[2] * cell, 100), Div(p[3] * ExpectedR(size), 100)>>

FoundCircles(size) ==
    LET one == {FoundCircle(p, size) : p \in FoundPoints}
    IN  UNION {[1..n -> one] : n \in 0..MaxFound}

\* lines 115-134: the image is read and the Hough passes are run
InitDetect ==
    /\ \E size \in ImageSizes :
          /\ image = [w |-> size[1], h |-> size[2], scene |-> "none"]
          /\ stacked \in FoundCircles(size)
    /\ deduped = <<>>
    /\ pc = "detect_circles"
    /\ circles = <<>>
    /\ med_radius = 0
    /\ fit = NoFit
    /\ grid = <<>>
    /\ grid_params = <<0, 0, 0, 0>>
    /\ wells = <<>>
    /\ NoClassification
    /\ NoEarlierRun

\* lines 136-137
DetectNothing ==
    /\ pc = "detect_circles"
    /\ Len(stacked) = 0
    /\ circles' = detect_circles(stacked, <<image.w, image.h>>).circles
    /\ med_radius' = detect_circles(stacked, <<image.w, image.h>>).med_r
    /\ pc' = "detected"
    /\ UNCHANGED <<cvars, image, fit, grid, grid_params, dvars, rvars>>

\* lines 139-156
DetectFilter ==
    /\ pc = "detect_circles"
    /\ Len(stacked) # 0
    /\ LET out == detect_circles(stacked, <<image.w, image.h>>)
       IN  /\ deduped' = out.deduped
           /\ circles' = out.circles
           /\ med_radius' = out.med_r
    /\ pc' = "detected"
    /\ UNCHANGED <<cvars, image, fit, grid, grid_params, stacked, rvars>>

NextDetect == DetectNothing \/ DetectFilter

SpecDetect == InitDetect /\ [][NextDetect]_vars

-----------------------------------------------------------------------------
(* extract_wells on plates with a specular highlight in every well *)

SampleScenes == Scenes \cup {"glare"}

InitSample ==
    /\ \E size \in ImageSizes, scene \in SampleScenes :
          /\ image = [w |-> size[1], h |-> size[2], scene |-> scene]
          /\ \/ circles = <<>>
             \/ \E pitch \in Pitches, first \in FirstCentres, nr \in BlockRows,
                   nc \in (MaxBlockCols - 2)..MaxBlockCols, stray \in BOOLEAN :
                   circles = DetectedCircles(size, pitch, first, nr, nc, stray)
          /\ med_radius = ExpectedR(size)
    /\ fit = NoFit
    /\ grid = <<>>
    /\ grid_params = <<0, 0, 0, 0>>
    /\ wells = <<>>
    /\ pc = "extract_wells"
    /\ NoClassification
    /\ NoDetection
    /\ NoEarlierRun

NextSample ==
    \/ ExtractNaive
    \/ FitEstimate
    \/ FitOrigin
    \/ RefineStep
    \/ FitReturn
    \/ SampleWells

SpecSample == InitSample /\ [][NextSample]_vars

-----------------------------------------------------------------------------
(* the final assignment of fit_grid_robust on a refined model *)

\* candidates around slots: (slot, offset from the slot's predicted position in
\* hundredths of the step). 0.40 off to either side and 0.30 off are accepted,
\* (0.44, 0.10) and 0.45 are not; slot (0, 12) is outside the plate
AssignPoints ==
    {<<<<0, 0>>, <<40, 0>>>>, <<<<0, 0>>, <<-40, 0>>>>, <<<<0, 0>>, <<0, 30>>>>,
     <<<<0, 0>>, <<44, 10>>>>, <<<<0, 1>>, <<-45, 0>>>>, <<<<7, 11>>, <<0, 0>>>>,
     <<<<0, 12>>, <<0, 0>>>>}
MaxAssigned == 3

AssignCandidate(p, ox, oy, sx, sy, rad) ==
    <<ox + p[1][2] * sx + Div(p[2][1] * sx, 100),
      oy + p[1][1] * sy + Div(p[2][2] * sy, 100), rad>>

\* sequences without repetition of candidates no two of which _deduplicate
\* would have merged
AssignCircles(size, ox, oy, sx, sy) ==
    LET rad == ExpectedR(size) + PX
        one == {AssignCandidate(p, ox, oy, sx, sy, rad) : p \in AssignPoints}
    IN  {cs \in UNION {[1..n -> one] : n \in 0..MaxAssigned} :
            \A i, j \in DOMAIN cs :
               i # j => ~CloserThan(cs[i], cs[j], MergeDist(size))}

\* fit_grid_robust line 238 has returned the refined model
InitAssign ==
    /\ \E size \in ImageSizes, wide \in BOOLEAN :
          LET cell == ExpectedCell(size)
              sx == IF wide THEN Div(5 * cell, 4) ELSE cell
          IN  /\ image = [w |-> size[1], h |-> size[2], scene |-> "gradient"]
              /\ fit = [step_x |-> cell, step_y |-> cell, ox |-> Div(cell, 2),
                        oy |-> Div(cell, 2), sx |-> sx, sy |-> cell, iteration |-> 3]
              /\ circles \in AssignCircles(size, Div(cell, 2), Div(cell, 2), sx, cell)
              /\ med_radius = ExpectedR(size)
    /\ grid = <<>>
    /\ grid_params = <<0, 0, 0, 0>>
    /\ wells = <<>>
    /\ pc = "refine"
    /\ NoClassification
    /\ NoDetection
    /\ NoEarlierRun

NextAssign == FitReturn

SpecAssign == InitAssign /\ [][NextAssign]_vars

-----------------------------------------------------------------------------
(* _refine_grid_lsq on a lattice with candidates that fit no slot *)

MaxStrays == 3

\* the lattices of extract_wells and two more: a pitch of 1.40 cells along x
\* (neighbours are too far apart to count, next-but-one neighbours count as
\* 3 steps) and one of 0.65 cells along y (neighbours are too close, and
\* next-but-one neighbours lie at 1.30 exactly)
RefinePitches == Pitches \cup {<<140, 100>>, <<100, 65>>}

\* a block of a lattice followed by n more candidates, each a quarter cell
\* off one of the block's first n candidates in both directions
StrayCircles(size, pitch, first, nr, nc, n) ==
    LET block == DetectedCircles(size, pitch, first, nr, nc, FALSE)
        cell_x == Div(size[1] * PX, 12)
        cell_y == Div(size[2] * PX, 8)
    IN  block \o [i \in 1..n |->
                    <<block[i][1] + Div(cell_x, 4), block[i][2] + Div(cell_y, 4), block[i][3]>>]

\* extract_wells line 29: fit_grid_robust is called on 20 candidates or more
InitRefine ==
    /\ \E size \in ImageSizes, pitch \in RefinePitches, first \in FirstCentres, nr \in BlockRows,
          nc \in (MaxBlockCols - 2)..MaxBlockCols, n \in 0..MaxStrays :
          /\ image = [w |-> size[1], h |-> size[2], scene |-> "gradient"]
          /\ circles = StrayCircles(size, pitch, first, nr, nc, n)
          /\ med_radius = ExpectedR(size)
    /\ ~TooFewCircles(Len(circles))
    /\ fit = NoFit
    /\ grid = <<>>
    /\ grid_params = <<0, 0, 0, 0>>
    /\ wells = <<>>
    /\ pc = "extract_wells"
    /\ NoClassification
    /\ NoDetection
    /\ NoEarlierRun

NextRefine ==
    \/ FitEstimate
    \/ FitOrigin
    \/ RefineStep
    \/ FitReturn

SpecRefine == InitRefine /\ [][NextRefine]_vars

-----------------------------------------------------------------------------
(* properties of the classifier and of the MIC calculator *)

Decided == {"growth", "inhibition"}

\* C1: when classify_wells has returned, no well of the mapping it returns is
\* 'uncertain': every well of the input is there and is growth or inhibition.
C1_NoUncertainReturned ==
    pc = "done" =>
        /\ DOMAIN classified = DOMAIN wells
        /\ \A k \in DOMAIN classified : classified[k].classification \in Decided

\* classify_wells has returned a mapping in which two horizontally adjacent wells
\* were both uncertain after phase 1 (neither kept the confidence high)
C1_Witness ==
    /\ pc = "done"
    /\ \E k \in DOMAIN classified :
           /\ <<k[1], k[2] + 1>> \in DOMAIN classified
           /\ classified[k].confidence # HIGH
           /\ classified[<<k[1], k[2] + 1>>].confidence # HIGH

\* C2: an uncertain well resolved while its left neighbour read 'growth' and its
\* right neighbour read 'inhibition' is inhibition with medium confidence,
\* whatever its own score.
C2_TransitionPoint ==
    (nbr.key # NoKey /\ nbr.left = "growth" /\ nbr.right = "inhibition") =>
        /\ classified[nbr.key].classification = "inhibition"
        /\ classified[nbr.key].confidence = MEDIUM

\* such a well whose own score is on the growth side of the 0.40 midpoint
C2_Witness ==
    /\ nbr.key # NoKey
    /\ nbr.left = "growth"
    /\ nbr.right = "inhibition"
    /\ classified[nbr.key].growth_score >= FALLBACK_THRESHOLD
    /\ classified[nbr.key].growth_score <= PINK_THRESHOLD

\* C3: during phase 1 every record stored so far has: score > 0.50 growth/high,
\* score < 0.30 inhibition/high, any other score (0.30 and 0.50 included)
\* uncertain/low.
C3_Phase1Thresholds ==
    pc = "phase1" =>
        \A k \in DOMAIN classified :
            LET w == classified[k]
            IN  /\ w.growth_score > 500000 =>
                    w.classification = "growth" /\ w.confidence = "high"
                /\ w.growth_score < 300000 =>
                    w.classification = "inhibition" /\ w.confidence = "high"
                /\ (300000 <= w.growth_score /\ w.growth_score <= 500000) =>
                    w.classification = "uncertain" /\ w.confidence = "low"

\* phase 1 has stored a well scoring exactly 0.50 and a well scoring exactly 0.30
C3_Witness ==
    /\ pc = "phase1"
    /\ \E k \in DOMAIN classified : classified[k].growth_score = 500000
    /\ \E k \in DOMAIN classified : classified[k].growth_score = 300000

\* C4: with no entry for the control well classify_wells gets no further than
\* its error and builds no mapping, and calculate_mic gets no further than its
\* error and builds no result list.
C4_MissingControlAborts ==
    /\ (pc \in {"classify_wells", "phase1", "resolve", "done", "error"}
            /\ CONTROL_WELL \notin DOMAIN wells) =>
           /\ pc \in {"classify_wells", "error"}
           /\ classified = <<>>
           /\ results = <<>>
    /\ (pc \in {"calculate_mic", "mic_done", "mic_error"}
            /\ CONTROL_WELL \notin DOMAIN classified) =>
           /\ pc \in {"calculate_mic", "mic_error"}
           /\ results = <<>>

\* classify_wells has raised on a mapping that holds wells but not the control
C4_Witness ==
    /\ pc = "error"
    /\ DOMAIN wells # {}
    /\ classified = <<>>

C8_ResolveAfterPhase1 ==
    /\ pc = "resolve" =>
           /\ todo = <<>>
           /\ DOMAIN classified = DOMAIN wells
    /\ (pc \in {"resolve", "done"} /\ nbr.key # NoKey) =>
           /\ (nbr.left = None) =>
                  (nbr.key[2] = 0 \/ <<nbr.key[1], nbr.key[2] - 1>> \notin DOMAIN wells)
           /\ (nbr.right = None) =>
                  (nbr.key[2] = COLS - 1 \/ <<nbr.key[1], nbr.key[2] + 1>> \notin DOMAIN wells)

\* resolution has read both neighbours of a well, and both were classified
C8_Witness ==
    /\ pc = "resolve"
    /\ nbr.key # NoKey
    /\ nbr.left # None
    /\ nbr.right # None

-----------------------------------------------------------------------------
(* properties of the extractor *)

\* after extract_wells has chosen its grid
GridChosen == pc \in {"sample", "extracted", "done", "mic_done"}
Sampled == pc \in {"extracted", "done", "mic_done"}

\* C6: the grid handed to the sampler has exactly the 96 slots of
\* {0..7} x {0..11}, each with a centre, a radius and a detected flag, on the
\* fitted and on the naive branch alike, and extract_wells returns exactly
\* one well record for each of those slots.
C6_GridCoversPlate ==
    /\ GridChosen =>
          /\ DOMAIN grid = Slots
          /\ Cardinality(DOMAIN grid) = 96
          /\ \A key \in DOMAIN grid :
                /\ grid[key].cx \in Int /\ grid[key].cy \in Int
                /\ grid[key].radius \in Int
                /\ grid[key].detected \in BOOLEAN
    /\ Sampled => DOMAIN wells = Slots

\* a fitted grid with matched and interpolated slots has been sampled
C6_Witness ==
    /\ pc = "extracted"
    /\ Len(circles) >= 20
    /\ \E key \in Slots : grid[key].detected
    /\ \E key \in Slots : ~grid[key].detected
    /\ DOMAIN wells = Slots

\* C7: with fewer than 20 candidates extract_wells does no fitting and uses
\* the naive grid, step_x = width / 12 and step_y = height / 8 exactly, the
\* origin at half a step, every slot with detected = false; with 20 or more
\* candidates the grid is the fitter's.
C7_NaiveBelowTwenty ==
    GridChosen =>
       /\ Len(circles) < 20 =>
             /\ fit = NoFit
             /\ grid_params[3] * 12 = image.w * PX
             /\ grid_params[4] * 8 = image.h * PX
             /\ 2 * grid_params[1] = grid_params[3]
             /\ 2 * grid_params[2] = grid_params[4]
             /\ \A key \in Slots :
                   /\ ~grid[key].detected
                   /\ grid[key].cx = grid_params[1] + key[2] * grid_params[3]
                   /\ grid[key].cy = grid_params[2] + key[1] * grid_params[4]
       /\ Len(circles) >= 20 =>
             /\ fit.step_x > 0 /\ fit.step_y > 0
             /\ grid_params = <<fit.ox, fit.oy, fit.sx, fit.sy>>

\* nineteen candidates were found and the naive grid was chosen
C7_Witness ==
    /\ pc = "sample"
    /\ Len(circles) = 19
    /\ fit = NoFit
    /\ \A key \in Slots : ~grid[key].detected

\* C9: a slot whose crop is smaller than 5x5 pixels comes out of sampling and
\* classification with pixel_count = 0, a classification of growth or
\* inhibition, and confidence low, whatever the control well holds.
C9_DegenerateLowConfidence ==
    pc \in {"done", "mic_done"} =>
       \A key \in Slots :
          CropTooSmall(image, grid[key]) =>
             /\ classified[key].pixel_count = 0
             /\ classified[key].classification \in Decided
             /\ classified[key].confidence = LOW

\* C10: for 20 or more candidates the steps the fitter returns satisfy
\* 0.85 <= step_x / step_y <= 1.15.
C10_SquarePitch ==
    (GridChosen /\ Len(circles) >= 20) =>
       /\ 85 * grid_params[4] <= 100 * grid_params[3]
       /\ 100 * grid_params[3] <= 115 * grid_params[4]

\* the clusters _deduplicate formed from the stacked detections
FormedClusters == DedupClusters(stacked, MergeDist(<<image.w, image.h>>), 1, {}, <<>>)

\* C11: deduplication merges transitively: when A is within the merge
\* distance of B and B within the merge distance of C, all three end in one
\* merged candidate, whatever the order of A, B and C in the input.
C11_TransitiveMerge ==
    pc = "deduplicated" =>
       \A i, j, k \in 1..Len(stacked) :
          (/\ CloserThan(stacked[i], stacked[j], MergeDist(<<image.w, image.h>>))
           /\ CloserThan(stacked[j], stacked[k], MergeDist(<<image.w, image.h>>)))
          => \E n \in 1..Len(FormedClusters) : {i, j, k} \subseteq FormedClusters[n]

\* C12: of exactly two candidates closer than the merge distance
\* _deduplicate returns one candidate, the average of their x, y and radius;
\* two candidates at or beyond the merge distance are both returned unchanged.
C12_PairMerge ==
    (pc = "deduplicated" /\ Len(stacked) = 2) =>
       IF Dist2(stacked[1], stacked[2])
             < MergeDist(<<image.w, image.h>>) * MergeDist(<<image.w, image.h>>)
       THEN /\ Len(deduped) = 1
            /\ \A c \in 1..3 : 2 * deduped[1][c] = stacked[1][c] + stacked[2][c]
       ELSE deduped = stacked

\* two detections 0.6 merge distances apart, of different radii, were merged
C12_Witness ==
    /\ pc = "deduplicated"
    /\ Len(stacked) = 2
    /\ stacked[1][1] # stacked[2][1]
    /\ stacked[1][3] # stacked[2][3]
    /\ Len(deduped) = 1
    /\ 2 * deduped[1][1] = stacked[1][1] + stacked[2][1]

-----------------------------------------------------------------------------
(* properties of the scores *)

\* C14: for a fixed control and fixed calibration anchors, of two wells with
\* the same hue and RGB whose saturations both exceed the inhibition anchor,
\* the one with the higher saturation has no higher growth score.
C14_SaturationMonotone ==
    \A k1, k2 \in DOMAIN classified \cap DOMAIN wells :
       (/\ wells[k1].hsv_median[1] = wells[k2].hsv_median[1]
        /\ wells[k1].hsv_median[3] = wells[k2].hsv_median[3]
        /\ wells[k1].rgb_mean = wells[k2].rgb_mean
        /\ 2 * wells[k1].hsv_median[2] > calib.inhib_sat2
        /\ wells[k1].hsv_median[2] < wells[k2].hsv_median[2])
       => classified[k2].growth_score <= classified[k1].growth_score

\* two wells of one tint above the inhibition anchor, the more saturated one scoring less
C14_Witness ==
    /\ pc = "done"
    /\ wells[<<0, 0>>].hsv_median[2] < wells[<<0, 1>>].hsv_median[2]
    /\ 2 * wells[<<0, 0>>].hsv_median[2] > calib.inhib_sat2
    /\ classified[<<0, 1>>].growth_score < classified[<<0, 0>>].growth_score

\* C15: for every well and every control colour, zero-valued samples and
\* controls with red-minus-blue zero or negative included, the relative, the
\* absolute and the combined growth score of the classified well lie in [0, 1].
C15_ScoresInUnitInterval ==
    \A k \in DOMAIN classified :
       /\ 0 <= classified[k].relative_score /\ classified[k].relative_score <= SCALE
       /\ 0 <= classified[k].absolute_score /\ classified[k].absolute_score <= SCALE
       /\ 0 <= classified[k].growth_score /\ classified[k].growth_score <= SCALE

\* a zero-valued well was scored against a control whose red is below its blue
C15_Witness ==
    /\ pc = "done"
    /\ wells[CONTROL_WELL].rgb_mean[1] < wells[CONTROL_WELL].rgb_mean[3]
    /\ wells[<<0, 0>>].rgb_mean = <<0, 0, 0>>
    /\ wells[<<0, 0>>].hsv_median[2] = 0
    /\ <<0, 0>> \in DOMAIN classified

\* the colours a third well is changed to
ThirdColours == {Tinted(tint, sat) : tint \in SweepTints, sat \in {20, 60, 150}}

\* phase 1 is complete and no well has been resolved yet
Phase1Done == pc = "resolve" /\ scan = 0

\* the record phase 1 stores for well k when classify_wells runs on the mapping w
Phase1Result(k, w) == Phase1Well(w[k], ControlData(w), Calibrate(w))

\* low saturation with red well above blue, or high saturation in the purple band
FeedsCalibration(data) ==
    \/ data.hsv_median[2] < 35 /\ data.rgb_mean[1] - data.rgb_mean[3] > 10
    \/ data.hsv_median[2] > 80 /\ 140 <= data.hsv_median[1] /\ data.hsv_median[1] <= 165

\* C16 as stated: a well's phase-1 result (relative, absolute and growth
\* score, threshold class) depends only on its own sample and the control's:
\* changing the sample of any third well leaves it unchanged.
C16_ThirdWellIndependent ==
    Phase1Done =>
       \A k \in SweepKeys, third \in SweepKeys, x \in ThirdColours :
          third # k => Phase1Result(k, [wells EXCEPT ![third] = x]) = classified[k]

\* C16 amended: a well's phase-1 result depends on its own sample, the
\* control's sample and the calibration anchors taken over all wells:
\* changing the sample of a third well that feeds neither calibration group,
\* before and after the change, leaves it unchanged.
C16_ThirdWellOutsideCalibration ==
    Phase1Done =>
       \A k \in SweepKeys, third \in SweepKeys, x \in ThirdColours :
          (third # k /\ ~FeedsCalibration(wells[third]) /\ ~FeedsCalibration(x))
          => Phase1Result(k, [wells EXCEPT ![third] = x]) = classified[k]

\* phase 1 is complete on a plate whose second well feeds no calibration group
\* and whose first well is uncertain
C16_Witness ==
    /\ Phase1Done
    /\ ~FeedsCalibration(wells[<<0, 1>>])
    /\ classified[<<0, 0>>].classification = "uncertain"
    /\ wells[<<0, 0>>] # wells[<<0, 1>>]

-----------------------------------------------------------------------------
(* properties of neighbour resolution and of the control check *)

\* C17: an uncertain well in the first or the last column, whose only
\* neighbour is growth or inhibition, takes that neighbour's class with
\* confidence medium.
C17_EdgeTakesNeighbour ==
    nbr.key # NoKey =>
       /\ (nbr.key[2] = 0 /\ nbr.right \in Decided) =>
             /\ classified[nbr.key].classification = nbr.right
             /\ classified[nbr.key].confidence = MEDIUM
       /\ (nbr.key[2] = COLS - 1 /\ nbr.left \in Decided) =>
             /\ classified[nbr.key].classification = nbr.left
             /\ classified[nbr.key].confidence = MEDIUM

\* C18: when the control well's growth score is below 0.4, calculate_mic
\* raises no error and returns one result record for each of the 8 rows.
C18_LowControlNotFatal ==
    [][(/\ pc \in {"done", "calculate_mic"}
        /\ CONTROL_WELL \in DOMAIN classified
        /\ classified[CONTROL_WELL].growth_score < 400000)
       => (/\ pc' = "mic_done"
           /\ Len(results') = 8
           /\ \A i \in 1..8 : results'[i].row = i - 1)]_vars

\* calculate_mic has returned for a control that scored 0.35
C18_Witness ==
    /\ pc = "mic_done"
    /\ classified[CONTROL_WELL].growth_score = 350000
    /\ Len(results) = 8

\* C19: whatever its own score, an uncertain well with left = growth and right
\* uncertain or missing becomes growth/medium; with left uncertain or missing
\* and right = inhibition it becomes inhibition/medium; with both neighbours
\* growth it becomes growth/medium; with both inhibition, inhibition/medium.
C19_NeighbourRulesIgnoreScore ==
    nbr.key # NoKey =>
       LET got == <<classified[nbr.key].classification, classified[nbr.key].confidence>>
       IN  /\ (nbr.left = "growth" /\ nbr.right \in {"uncertain", None})
                 => got = <<"growth", MEDIUM>>
           /\ (nbr.left \in {"uncertain", None} /\ nbr.right = "inhibition")
                 => got = <<"inhibition", MEDIUM>>
           /\ (nbr.left = "growth" /\ nbr.right = "growth")
                 => got = <<"growth", MEDIUM>>
           /\ (nbr.left = "inhibition" /\ nbr.right = "inhibition")
                 => got = <<"inhibition", MEDIUM>>
           \* the scan never reads an uncertain left neighbour (it resolved it one
           \* iteration earlier); the function itself, at the uncertain scores' ends
           /\ \A score \in {PURPLE_THRESHOLD, PINK_THRESHOLD} :
                 apply_neighbor_rules(score, "uncertain", "inhibition") = <<"inhibition", MEDIUM>>

\* a well scoring below the fallback midpoint between two growth wells: growth
C19_Witness ==
    /\ nbr.key # NoKey
    /\ nbr.left = "growth"
    /\ nbr.right = "growth"
    /\ classified[nbr.key].growth_score < FALLBACK_THRESHOLD
    /\ classified[nbr.key].classification = "growth"
    /\ classified[nbr.key].confidence = MEDIUM

\* C20: an uncertain well to which none of the neighbour rules 1-5 applies is
\* resolved from its own score with the 0.40 midpoint (growth at or above it,
\* inhibition below it) with confidence low, and a well ends with confidence
\* low only that way: a well a neighbour rule applies to ends with confidence
\* medium, a well that was never uncertain with confidence high.
C20_LowOnlyByFallback ==
    /\ nbr.key # NoKey =>
          LET w == classified[nbr.key]
              rule1to5 ==
                  \/ nbr.left = "growth" /\ nbr.right = "inhibition"
                  \/ nbr.left = "growth" /\ nbr.right \in {"uncertain", None}
                  \/ nbr.left \in {"uncertain", None} /\ nbr.right = "inhibition"
                  \/ nbr.left = nbr.right /\ nbr.left \in Decided
                  \/ nbr.key[2] = 0 /\ nbr.right \in Decided
                  \/ nbr.key[2] = COLS - 1 /\ nbr.left \in Decided
          IN  /\ ~rule1to5 =>
                    /\ w.confidence = LOW
                    /\ w.classification =
                          IF w.growth_score >= FALLBACK_THRESHOLD THEN "growth" ELSE "inhibition"
              /\ rule1to5 => w.confidence = MEDIUM
    /\ pc = "done" =>
          \A k \in DOMAIN classified :
             ThresholdClass(classified[k].growth_score)[1] # "uncertain"
                => classified[k].confidence = HIGH

-----------------------------------------------------------------------------
(* properties of the scan order and of the frame of neighbour resolution *)

\* C21: neighbour resolution visits the wells in row-major order, each once,
\* and a resolved well is not examined again: each step resolves one well at
\* or after the scan position and moves the position past it. When its left
\* neighbour was uncertain after phase 1, the class read for it is the resolved
\* one; when its right neighbour was uncertain after phase 1, the class read
\* for it is still 'uncertain'.
C21_ScanOrder ==
    [][(pc = "resolve" /\ pc' = "resolve") =>
          LET k == nbr'.key
              l == <<k[1], k[2] - 1>>
              r == <<k[1], k[2] + 1>>
              was_uncertain(x) ==
                  /\ x \in DOMAIN classified
                  /\ ThresholdClass(classified[x].growth_score)[1] = "uncertain"
          IN  /\ k[1] * COLS + k[2] >= scan
              /\ scan' = k[1] * COLS + k[2] + 1
              /\ classified[k].classification = "uncertain"
              /\ classified'[k].classification \in Decided
              /\ \A x \in DOMAIN classified \ {k} : classified'[x] = classified[x]
              /\ (k[2] > 0 /\ was_uncertain(l)) =>
                    /\ nbr'.left \in Decided
                    /\ nbr'.left = classified[l].classification
              /\ (k[2] < COLS - 1 /\ was_uncertain(r)) => nbr'.right = "uncertain"]_vars

\* the right one of two adjacent uncertain wells, scoring below the midpoint,
\* became growth because the left one had been resolved to growth before it
C21_Witness ==
    /\ nbr.key # NoKey
    /\ <<nbr.key[1], nbr.key[2] - 1>> \in DOMAIN classified
    /\ ThresholdClass(classified[<<nbr.key[1], nbr.key[2] - 1>>].growth_score)[1] = "uncertain"
    /\ nbr.left = "growth"
    /\ classified[nbr.key].growth_score < FALLBACK_THRESHOLD
    /\ classified[nbr.key].classification = "growth"

-----------------------------------------------------------------------------
(* properties of the final assignment, the refinement and the step estimate *)

\* C22: in the grid fit_grid_robust returns, a slot is detected exactly when
\* some candidate rounds to it (and to no other) with an error below
\* 0.45 x max(step_x, step_y); it then carries the centre and radius of a
\* candidate of least error among those, the same one whatever the order of
\* the input; every other slot carries origin + index x step, the median
\* radius and detected = false.
C22_SlotAssignment ==
    (pc = "sample" /\ fit.iteration = 3) =>
        LET ox == fit.ox
            oy == fit.oy
            sx == fit.sx
            sy == fit.sy
            m == IF sx >= sy THEN sx ELSE sy
            n == Len(circles)
            slot(c) == <<RoundDiv(c[2] - oy, sy), RoundDiv(c[1] - ox, sx)>>
            e2(c) == (c[1] - (ox + slot(c)[2] * sx)) * (c[1] - (ox + slot(c)[2] * sx))
                     + (c[2] - (oy + slot(c)[1] * sy)) * (c[2] - (oy + slot(c)[1] * sy))
            cand(k) == {i \in 1..n : slot(circles[i]) = k /\ 400 * e2(circles[i]) < 81 * m * m}
            perms == {q \in [1..n -> 1..n] : \A i, j \in 1..n : q[i] = q[j] => i = j}
        IN  /\ \A k \in Slots :
                  /\ cand(k) = {} =>
                        grid[k] = [cx |-> ox + k[2] * sx, cy |-> oy + k[1] * sy,
                                   radius |-> med_radius, detected |-> FALSE]
                  /\ cand(k) # {} =>
                        \E i \in cand(k) :
                           /\ grid[k] = [cx |-> circles[i][1], cy |-> circles[i][2],
                                         radius |-> circles[i][3], detected |-> TRUE]
                           /\ \A j \in cand(k) : e2(circles[i]) <= e2(circles[j])
            /\ \A q \in perms :
                  BuildGrid(_assign_circles([i \in 1..n |-> circles[q[i]]], ox, oy, sx, sy),
                            ox, oy, sx, sy, med_radius) = grid

\* C22 as the code has it: the same, except that among candidates of equal
\* least error the slot carries the one that comes first in the input, so the
\* grid is the same for every order only when no two candidates of one slot
\* have equal errors.
C22_SlotAssignmentFirstOnTie ==
    (pc = "sample" /\ fit.iteration = 3) =>
        LET ox == fit.ox
            oy == fit.oy
            sx == fit.sx
            sy == fit.sy
            m == IF sx >= sy THEN sx ELSE sy
            n == Len(circles)
            slot(c) == <<RoundDiv(c[2] - oy, sy), RoundDiv(c[1] - ox, sx)>>
            e2(c) == (c[1] - (ox + slot(c)[2] * sx)) * (c[1] - (ox + slot(c)[2] * sx))
                     + (c[2] - (oy + slot(c)[1] * sy)) * (c[2] - (oy + slot(c)[1] * sy))
            cand(k) == {i \in 1..n : slot(circles[i]) = k /\ 400 * e2(circles[i]) < 81 * m * m}
            perms == {q \in [1..n -> 1..n] : \A i, j \in 1..n : q[i] = q[j] => i = j}
            tie == \E k \in Slots : \E i, j \in cand(k) :
                      i # j /\ e2(circles[i]) = e2(circles[j])
        IN  /\ \A k \in Slots :
                  /\ cand(k) = {} =>
                        grid[k] = [cx |-> ox + k[2] * sx, cy |-> oy + k[1] * sy,
                                   radius |-> med_radius, detected |-> FALSE]
                  /\ cand(k) # {} =>
                        \E i \in cand(k) :
                           /\ grid[k] = [cx |-> circles[i][1], cy |-> circles[i][2],
                                         radius |-> circles[i][3], detected |-> TRUE]
                           /\ \A j \in cand(k) : e2(circles[i]) <= e2(circles[j])
                           /\ \A j \in cand(k) : e2(circles[i]) = e2(circles[j]) => i <= j
            /\ ~tie =>
                  \A q \in perms :
                     BuildGrid(_assign_circles([i \in 1..n |-> circles[q[i]]], ox, oy, sx, sy),
                               ox, oy, sx, sy, med_radius) = grid

\* two candidates 0.40 of a step off slot (0, 0) on either side competed for
\* it with equal errors; the slot carries the one that came first
C22_Witness ==
    /\ pc = "sample"
    /\ fit.iteration = 3
    /\ Len(circles) = 2
    /\ \A i \in 1..2 :
          /\ RoundDiv(circles[i][1] - fit.ox, fit.sx) = 0
          /\ RoundDiv(circles[i][2] - fit.oy, fit.sy) = 0
    /\ circles[1][1] # circles[2][1]
    /\ circles[1][1] - fit.ox = fit.ox - circles[2][1]
    /\ circles[1][2] = circles[2][2]
    /\ grid[<<0, 0>>].detected
    /\ grid[<<0, 0>>].cx = circles[1][1]

\* C23: the refinement makes at most 3 fitting rounds; in a round where fewer
\* than 20 candidates lie within 0.35 x max(step_x, step_y) of the slot they
\* round to, it fits nothing and returns the origin and steps it held at the
\* start of that round (in the first round: the origin found by the search
\* and the estimated steps).
C23_RefineTerminates ==
    [][pc = "refine" =>
          LET m == IF fit.step_x >= fit.step_y THEN fit.step_x ELSE fit.step_y
              slot(c) == <<RoundDiv(c[2] - fit.oy, fit.sy), RoundDiv(c[1] - fit.ox, fit.sx)>>
              e2(c) == (c[1] - (fit.ox + slot(c)[2] * fit.sx)) * (c[1] - (fit.ox + slot(c)[2] * fit.sx))
                       + (c[2] - (fit.oy + slot(c)[1] * fit.sy)) * (c[2] - (fit.oy + slot(c)[1] * fit.sy))
              good == {i \in 1..Len(circles) :
                          /\ slot(circles[i]) \in Slots
                          /\ 400 * e2(circles[i]) < 49 * m * m}
          IN  /\ fit.iteration \in 0..3
              /\ pc' = "refine" =>
                    /\ fit.iteration < 3
                    /\ fit'.iteration = fit.iteration + 1
              /\ (Cardinality(good) < 20 \/ fit.iteration = 3) =>
                    /\ pc' = "sample"
                    /\ grid_params' = <<fit.ox, fit.oy, fit.sx, fit.sy>>
              /\ (Cardinality(good) < 20 /\ fit.iteration = 0) =>
                    grid_params' = <<set_order[1], set_order[2], fit.step_x, fit.step_y>>]_vars

\* 20 candidates or more, fewer than 20 of them near a slot of the initial
\* estimate: the refinement has returned that estimate without a fitting round
C23_Witness ==
    /\ pc = "sample"
    /\ Len(circles) >= 20
    /\ fit.iteration = 0
    /\ grid_params = <<set_order[1], set_order[2], fit.step_x, fit.step_y>>

\* C24: for each axis, a pair of candidates contributes its unit distance
\* (axis difference over the rounded number of expected steps) only if its
\* difference on the other axis is within 0.4 of the expected step there, the
\* number of steps is between 1 and 12 and the unit distance lies between 0.7
\* and 1.3 of the expected step; the step the fitter goes on with is the median
\* of the contributing unit distances when 5 pairs or more contribute and the
\* expected step otherwise, so it is positive and within [0.7, 1.3] x expected.
C24_StepEstimate ==
    pc = "fit_origin" =>
        LET n == Len(circles)
            expected == <<Div(image.w * PX, 12), Div(image.h * PX, 8)>>
            step == <<fit.step_x, fit.step_y>>
            diff(p, a) == Abs(circles[p[1]][a] - circles[p[2]][a])
            steps(p, a) == RoundDiv(diff(p, a), expected[a])
            contributing(a) ==
                {p \in (1..n) \X (1..n) :
                    /\ p[1] < p[2]
                    /\ 10 * diff(p, 3 - a) <= 4 * expected[3 - a]
                    /\ steps(p, a) >= 1
                    /\ steps(p, a) <= 12
                    /\ 7 * expected[a] * steps(p, a) < 10 * diff(p, a)
                    /\ 10 * diff(p, a) < 13 * expected[a] * steps(p, a)}
            unit(a) == [p \in contributing(a) |-> Div(diff(p, a), steps(p, a))]
        IN  \A a \in {1, 2} :
               /\ Cardinality(contributing(a)) >= 5 =>
                     step[a] = Div(Median2(unit(a), contributing(a)), 2)
               /\ Cardinality(contributing(a)) < 5 => step[a] = expected[a]
               /\ step[a] > 0
               /\ 7 * expected[a] <= 10 * step[a]
               /\ 10 * step[a] <= 13 * expected[a]

\* along y fewer than 5 pairs contribute, though some do and some lie at 1.3
\* of the expected step exactly, and the step is the expected one
C24_Witness ==
    /\ pc = "fit_origin"
    /\ fit.step_y = Div(image.h * PX, 8)
    /\ \E i, j \in 1..Len(circles) :
          /\ 10 * Abs(circles[i][1] - circles[j][1]) <= 4 * Div(image.w * PX, 12)
          /\ RoundDiv(Abs(circles[i][2] - circles[j][2]), Div(image.h * PX, 8)) = 1
          /\ 10 * Abs(circles[i][2] - circles[j][2]) > 7 * Div(image.h * PX, 8)
          /\ 10 * Abs(circles[i][2] - circles[j][2]) < 13 * Div(image.h * PX, 8)
    /\ \E i, j \in 1..Len(circles) :
          /\ circles[i][1] = circles[j][1]
          /\ 10 * Abs(circles[i][2] - circles[j][2]) = 13 * Div(image.h * PX, 8)

-----------------------------------------------------------------------------
(* properties of detect_circles, the absolute scorer and the sampler *)

\* C25: every candidate detect_circles returns is one of the deduplicated
\* candidates, has a radius within [0.6, 1.4] x their median radius and a
\* centre more than 0.5 x that median away from each of the four borders of
\* the image; the median returned is that of the deduplicated candidates,
\* taken before the two filters.
C25_FiltersAroundMedian ==
    (pc = "detected" /\ Len(stacked) > 0) =>
        LET n == Len(deduped)
            med2 == Median2([i \in 1..n |-> deduped[i][3]], 1..n)
        IN  /\ med_radius = Div(med2, 2)
            /\ \A i \in 1..Len(circles) :
                  LET c == circles[i]
                  IN  /\ \E j \in 1..n : deduped[j] = c
                      /\ 10 * 2 * c[3] >= 6 * med2
                      /\ 10 * 2 * c[3] <= 14 * med2
                      /\ 2 * 2 * c[1] > med2
                      /\ 2 * 2 * (image.w * PX - c[1]) > med2
                      /\ 2 * 2 * c[2] > med2
                      /\ 2 * 2 * (image.h * PX - c[2]) > med2

\* the filters dropped a candidate, kept another, and the median of the kept
\* ones is not the median that is returned
C25_Witness ==
    /\ pc = "detected"
    /\ Len(circles) > 0
    /\ Len(circles) < Len(deduped)
    /\ 2 * med_radius # Median2([i \in 1..Len(circles) |-> circles[i][3]], 1..Len(circles))

\* C26: the absolute scorer takes the midpoint of the two saturation anchors as
\* its decision boundary: a well whose saturation lies strictly between the
\* midpoint it was scored with and the midpoint of another calibration would get
\* a different absolute score under that other calibration (anchors: a growth
\* median below 35, an inhibition median above 80).
C26_MidpointIsBoundary ==
    pc \in {"resolve", "done"} =>
        \A k \in DOMAIN classified :
           \A growth_sat \in {0, 20, 34}, inhib_sat \in {81, 141, 200} :
              LET w == classified[k]
                  s == w.hsv_median[2]
                  mid4 == 2 * growth_sat + 2 * inhib_sat
              IN  ((calib.sat_mid4 < 4 * s /\ 4 * s < mid4)
                     \/ (mid4 < 4 * s /\ 4 * s < calib.sat_mid4)) =>
                     compute_absolute_score(w.hsv_median, w.rgb_mean,
                         2 * growth_sat, 2 * inhib_sat, mid4) # w.absolute_score

\* C27: every slot of the grid yields a well record. With at least 10 pixels
\* inside the mask that pass the brightness and the saturation test the sample
\* is taken from exactly those; with fewer it is taken from all pixels inside
\* the mask, valid or not; when the crop is less than 5 pixels high or wide,
\* or no pixel lies inside the mask, the sample is zero with pixel_count = 0.
C27_SamplerFallbackChain ==
    pc = "extracted" =>
        /\ DOMAIN wells = DOMAIN grid
        /\ \A key \in DOMAIN grid :
              LET b == CropBounds(image, grid[key])
                  sample_r == (b.r * 45) \div 100
                  in_mask == MaskCount(b.cx - b.x1, b.cy - b.y1, sample_r, b.cw, b.ch)
                  highlight == IF image.scene = "glare"
                               THEN GlareCount(b.cx - b.x1, b.cy - b.y1, sample_r, b.cw, b.ch)
                               ELSE 0
                  base == SceneColour(image, b.cx)
                  ok == base.hsv_median[3] < 245 /\ base.hsv_median[2] > 15
                  passing == IF ok THEN in_mask - highlight ELSE 0
                  w == wells[key]
              IN  IF b.ch < 5 \/ b.cw < 5 \/ in_mask = 0
                  THEN /\ w.pixel_count = 0
                       /\ w.hsv_median = <<0, 0, 0>>
                       /\ w.rgb_mean = <<0, 0, 0>>
                  ELSE IF passing >= 10
                  THEN /\ w.pixel_count = passing
                       /\ w.hsv_median = base.hsv_median
                       /\ w.rgb_mean = base.rgb_mean
                  ELSE /\ w.pixel_count = in_mask
                       /\ w.hsv_median = MixedColour(base, in_mask - highlight, Washed, highlight).hsv_median
                       /\ w.rgb_mean = MixedColour(base, in_mask - highlight, Washed, highlight).rgb_mean

\* one plate with a well sampled from its valid pixels only, a well with some
\* but fewer than 10 valid pixels that is sampled from the whole mask, and a
\* well without any pixel
C27_Witness ==
    /\ pc = "extracted"
    /\ image.scene = "glare"
    /\ \E key \in DOMAIN grid :
          LET b == CropBounds(image, grid[key])
              sample_r == (b.r * 45) \div 100
              in_mask == MaskCount(b.cx - b.x1, b.cy - b.y1, sample_r, b.cw, b.ch)
              highlight == GlareCount(b.cx - b.x1, b.cy - b.y1, sample_r, b.cw, b.ch)
          IN  /\ b.ch >= 5 /\ b.cw >= 5
              /\ highlight > 0
              /\ in_mask - highlight > 0
              /\ in_mask - highlight < 10
              /\ wells[key].pixel_count = in_mask
              /\ wells[key].rgb_mean # SceneColour(image, b.cx).rgb_mean
    /\ \E key \in DOMAIN grid : wells[key].pixel_count = 0

-----------------------------------------------------------------------------
(* properties of the frame of neighbour resolution and of the row results *)

\* C28: a step of neighbour resolution keeps the key set, keeps the growth,
\* relative and absolute score and the colour sample of every well, and keeps
\* the classification and confidence of every well that is growth or
\* inhibition; the mapping classify_wells returns has the key set of its input.
C28_ResolutionFrame ==
    /\ [](pc = "done" => DOMAIN classified = DOMAIN wells)
    /\ [][pc = "resolve" =>
             /\ DOMAIN classified' = DOMAIN classified
             /\ \A k \in DOMAIN classified :
                   LET before == classified[k]
                       after == classified'[k]
                   IN  /\ after.growth_score = before.growth_score
                       /\ after.relative_score = before.relative_score
                       /\ after.absolute_score = before.absolute_score
                       /\ after.hsv_median = before.hsv_median
                       /\ after.rgb_mean = before.rgb_mean
                       /\ after.pixel_count = before.pixel_count
                       /\ before.classification \in Decided =>
                             /\ after.classification = before.classification
                             /\ after.confidence = before.confidence]_vars

\* classify_wells has returned; a well was resolved between a well that phase 1
\* had classified with confidence high and that still is as phase 1 left it
C28_Witness ==
    /\ pc = "done"
    /\ nbr.key # NoKey
    /\ nbr.left \in Decided
    /\ classified[nbr.key].confidence # HIGH
    /\ LET l == <<nbr.key[1], nbr.key[2] - 1>>
       IN  /\ classified[l].confidence = HIGH
           /\ classified[l].classification = ThresholdClass(classified[l].growth_score)[1]

\* C29: when resolve_uncertain_wells has just resolved the well at (row, col),
\* the class it read to the left is growth, inhibition or missing, never
\* 'uncertain'; every well to the left in that row is growth or inhibition and
\* every well to the right in that row still has its phase-1 class and
\* confidence. Rows do not interact: each row of the mapping classify_wells
\* returns is what resolving that row alone gives.
C29_LeftAlreadyResolved ==
    LET phase1 == [k \in DOMAIN classified |->
                      [classified[k] EXCEPT
                          !.classification = ThresholdClass(classified[k].growth_score)[1],
                          !.confidence = ThresholdClass(classified[k].growth_score)[2]]]
        RowOf(m, r) == [k \in {x \in DOMAIN m : x[1] = r} |-> m[k]]
    IN  /\ (pc \in {"resolve", "done"} /\ nbr.key # NoKey) =>
               /\ nbr.left \in Decided \cup {None}
               /\ nbr.key[2] = 0 => nbr.left = None
        /\ (pc = "resolve" /\ nbr.key # NoKey) =>
               \A k \in DOMAIN classified :
                  /\ (k[1] = nbr.key[1] /\ k[2] < nbr.key[2]) =>
                        classified[k].classification \in Decided
                  /\ (k[1] = nbr.key[1] /\ k[2] > nbr.key[2]) =>
                        /\ classified[k].classification = phase1[k].classification
                        /\ classified[k].confidence = phase1[k].confidence
        /\ pc = "done" =>
               \A r \in 0..(ROWS - 1) :
                  RowOf(classified, r) = resolve_uncertain_wells(RowOf(phase1, r))

\* the first well of row 1 has just been resolved, the last well of row 0 is
\* present, and an uncertain well waits to its right
C29_Witness ==
    /\ pc = "resolve"
    /\ nbr.key = <<1, 0>>
    /\ nbr.left = None
    /\ nbr.right = "uncertain"
    /\ <<0, COLS - 1>> \in DOMAIN classified
    /\ classified[<<0, COLS - 1>>].classification \in Decided

\* C30: every row result of calculate_mic has exactly one of three shapes:
\* (i) mic_column is a column at or after the row's start column and mic_value is
\* the number CONCENTRATIONS holds for that column, never the None of the control
\* well; (ii) mic_column is None and mic_value is the text '>' with the row's top
\* concentration, and then no scanned well met the threshold and every well from
\* the start column on is present with a score above 0.5; (iii) mic_column and
\* mic_value are None and the note is 'Belirlenemedi'. With a control score of at
\* most 0.01 no row has shape (i).
C30_RowShapes ==
    pc = "mic_done" =>
        \A i \in 1..ROWS :
            LET res == results[i]
                row_idx == i - 1
                ctrl == classified[CONTROL_WELL].growth_score
                scanned == StartCol(row_idx)..(COLS - 1)
                present(c) == <<row_idx, c>> \in DOMAIN classified
                score(c) == classified[<<row_idx, c>>].growth_score
                found == /\ res.mic_column \in scanned
                         /\ res.mic_value.kind = "conc"
                         /\ res.mic_value.conc = CONCENTRATIONS(row_idx)[res.mic_column + 1]
                         /\ res.mic_value.conc # NoNumber
                above == /\ res.mic_column = NoNumber
                         /\ res.mic_value = MicAbove(CONCENTRATIONS(row_idx)[COLS])
                undetermined == /\ res.mic_column = NoNumber
                                /\ res.mic_value = MicNone
                                /\ res.note = "Belirlenemedi"
            IN  /\ found \/ above \/ undetermined
                /\ ~(found /\ above) /\ ~(found /\ undetermined) /\ ~(above /\ undetermined)
                /\ above =>
                      \A c \in scanned :
                         /\ present(c)
                         /\ score(c) > 500000
                         /\ ~MeetsThreshold(score(c), ctrl, res.inhibition_threshold)
                /\ ctrl <= 10000 => ~found

\* row H, whose column 0 is the control well, has its MIC at a later column, and
\* row A, none of whose wells is present, is undetermined
C30_Witness ==
    /\ pc = "mic_done"
    /\ results[8].mic_column >= 1
    /\ results[8].mic_value.kind = "conc"
    /\ results[8].mic_value.conc = ConcH[results[8].mic_column + 1]
    /\ results[1].mic_column = NoNumber
    /\ results[1].note = "Belirlenemedi"

====
